---- MODULE Spec2Model ----
(***************************************************************************)
(* A model of the DNS packet codec of src/resolve/resolved-dns-packet.c:   *)
(* the packet container (size, allocated, rindex, the compression map      *)
(* "names", the reference count and the "more" chain), the append and read *)
(* primitives, the name codec and the resource record codec.               *)
(*                                                                         *)
(* The packet buffer is kept sparsely: data maps an offset to its byte and *)
(* an offset outside DOMAIN data holds 0, so that packets of up to         *)
(* DNS_PACKET_SIZE_MAX bytes are small states.  A name is a sequence of    *)
(* labels, a label a sequence of byte values.                              *)
(***************************************************************************)
EXTENDS Integers, Sequences, FiniteSets, TLC

(***************************************************************************)
(* Constants of the headers (resolved-dns-packet.h, errno.h, dns-type.h).  *)
(***************************************************************************)
DNS_PACKET_HEADER_SIZE == 12
\* The specification gives PACKET_SIZE_MAX >= 65535; the header that sets it
\* is not part of the sources at hand.  With the value below an RDLENGTH
\* above 0xFFFF fits into a packet.
DNS_PACKET_SIZE_MAX == 131071
DNS_PACKET_SIZE_START == 512
UDP_PACKET_HEADER_SIZE == 28
DNS_LABEL_MAX == 63
PAGE_SIZE == 4096
\* ALIGN(sizeof(DnsPacket)): the struct is followed by the initial buffer.
ALIGNED_SIZEOF_DNSPACKET == 128
\* size_t arithmetic wraps around at SIZE_T_MOD (a 24 bit stand-in for the
\* machine word: wide enough for every offset, narrow enough to enumerate).
SIZE_T_MOD == 2^24

EMSGSIZE == 90
E2BIG == 7
EBADMSG == 74
ENOMEM == 12
ENOSPC == 28
EEXIST == 17

DNS_TYPE_A == 1
DNS_TYPE_NS == 2
DNS_TYPE_CNAME == 5
DNS_TYPE_SOA == 6
DNS_TYPE_PTR == 12
DNS_TYPE_HINFO == 13
DNS_TYPE_MX == 15
DNS_TYPE_TXT == 16
DNS_TYPE_AAAA == 28
DNS_TYPE_LOC == 29
DNS_TYPE_SRV == 33
DNS_TYPE_DNAME == 39
DNS_TYPE_OPT == 41
DNS_TYPE_DS == 43
DNS_TYPE_SSHFP == 44
DNS_TYPE_RRSIG == 46
DNS_TYPE_NSEC == 47
DNS_TYPE_DNSKEY == 48
DNS_TYPE_NSEC3 == 50
DNS_TYPE_SPF == 99
MDNS_RR_CACHE_FLUSH == 32768
EDNS0_OPT_DO == 32768

(***************************************************************************)
(* Bounds of the model.                                                    *)
(***************************************************************************)
\* Operations applied to one packet in a run.
MaxOps == 3
\* Iterations a decoding loop is followed for before it is given up as one
\* that does not end.
MaxIter == 16
\* Bytes after the header in the received buffers that are enumerated in full.
MaxBodyLen == 3
\* Bytes of the type bitmaps that are enumerated in full.
MaxWindowLen == 2
\* References taken on one packet.
MaxRefs == 4

\* The largest number of names written and read back
MaxNames == 3

(***************************************************************************)
(* Arithmetic helpers.                                                     *)
(***************************************************************************)
Max(a, b) == IF a > b THEN a ELSE b

Min(a, b) == IF a < b THEN a ELSE b

\* size_t addition and subtraction
SzAdd(a, b) == (a + b) % SIZE_T_MOD

SzSub(a, b) == (a - b + SIZE_T_MOD) % SIZE_T_MOD

\* PAGE_ALIGN(l): l rounded up to the next multiple of the page size, in size_t
PAGE_ALIGN(l) == (((l + PAGE_SIZE - 1) \div PAGE_SIZE) * PAGE_SIZE) % SIZE_T_MOD

\* n bytes that are all b
Fill(n, b) == [i \in 1..n |-> b]

\* bit k (0 = least significant) of the byte b
Bit(b, k) == (b \div (2^k)) % 2

\* unaligned_write_be16, unaligned_write_be32.  A 32 bit number is held as
\* its two 16 bit halves <<high, low>>.
Be16(v) == <<(v \div 256) % 256, v % 256>>

Be32(v) == Be16(v[1]) \o Be16(v[2])

\* The empty hashmap, and the empty buffer content
EmptyMap == [x \in {} |-> 0]

MapPut(m, k, v) == [x \in DOMAIN m \cup {k} |-> IF x = k THEN v ELSE m[x]]

(***************************************************************************)
(* The buffer.                                                             *)
(***************************************************************************)
\* ((uint8_t*) DNS_PACKET_DATA(p))[o]
ByteAt(p, o) == IF o \in DOMAIN p.data THEN p.data[o] ELSE 0

\* memcpy(DNS_PACKET_DATA(p) + off, bytes, Len(bytes))
PutBytes(data, off, bytes) ==
    LET n == Len(bytes)
        keep == {o \in DOMAIN data : o < off \/ o >= off + n}
        set == {o \in off..(off + n - 1) : bytes[o - off + 1] # 0}
    IN  [o \in keep \cup set |-> IF o \in set THEN bytes[o - off + 1] ELSE data[o]]

\* memcpy of n bytes that are all b (a large blob is given by its length)
PutFill(data, off, n, b) ==
    LET keep == {o \in DOMAIN data : o < off \/ o >= off + n}
    IN  IF b = 0 THEN [o \in keep |-> data[o]]
        ELSE [o \in keep \cup (off..(off + n - 1)) |->
                 IF o >= off /\ o < off + n THEN b ELSE data[o]]

\* An allocation (malloc, realloc, strdup, hashmap growth) of the call fails
\* when the countdown p.oom stands at 1; 0 means no allocation fails.
AllocFails(p) == p.oom = 1

Allocated(p) == [p EXCEPT !.oom = IF @ > 0 THEN @ - 1 ELSE 0]

(***************************************************************************)
(* dns_packet_new                                                          *)
(***************************************************************************)
NewAllocated(mtu) ==
    LET a0 == IF mtu <= UDP_PACKET_HEADER_SIZE
              THEN DNS_PACKET_SIZE_START
              ELSE mtu - UDP_PACKET_HEADER_SIZE
        a1 == IF a0 < DNS_PACKET_HEADER_SIZE THEN DNS_PACKET_HEADER_SIZE ELSE a0
        a2 == SzSub(PAGE_ALIGN(SzAdd(ALIGNED_SIZEOF_DNSPACKET, a1)),
                    ALIGNED_SIZEOF_DNSPACKET)
    IN  IF a2 > DNS_PACKET_SIZE_MAX THEN DNS_PACKET_SIZE_MAX ELSE a2

dns_packet_new(protocol, mtu) ==
    [protocol |-> protocol,
     size |-> DNS_PACKET_HEADER_SIZE,
     rindex |-> DNS_PACKET_HEADER_SIZE,
     allocated |-> NewAllocated(mtu),
     data |-> EmptyMap,
     names |-> EmptyMap,
     refuse_compression |-> FALSE,
     canonical_form |-> FALSE,
     extracted |-> FALSE,
     question |-> <<>>,
     answer |-> <<>>,
     opt |-> <<>>,
     oom |-> 0]

\* dns_packet_extend that lets the buffer grow beyond DNS_PACKET_SIZE_MAX
dns_packet_extend_unclamped(p, add) ==
    IF SzAdd(p.size, add) > p.allocated
    THEN LET a == PAGE_ALIGN((SzAdd(p.size, add) * 2) % SIZE_T_MOD)
         IN  IF SzAdd(p.size, add) > a
             THEN [p |-> p, r |-> -EMSGSIZE, start |-> 0]
             ELSE IF AllocFails(p)
             THEN [p |-> Allocated(p), r |-> -ENOMEM, start |-> 0]
             ELSE [p |-> [Allocated(p) EXCEPT !.allocated = a,
                                              !.size = SzAdd(p.size, add)],
                   r |-> 0, start |-> p.size]
    ELSE [p |-> [p EXCEPT !.size = SzAdd(p.size, add)], r |-> 0, start |-> p.size]

(***************************************************************************)
(* dns_packet_extend, dns_packet_truncate                                  *)
(***************************************************************************)
\* Result: the packet, r, and start (the offset of the added region).
dns_packet_extend(p, add) ==
    IF SzAdd(p.size, add) > p.allocated
    THEN LET a0 == PAGE_ALIGN((SzAdd(p.size, add) * 2) % SIZE_T_MOD)
             a == IF a0 > DNS_PACKET_SIZE_MAX THEN DNS_PACKET_SIZE_MAX ELSE a0
         IN  IF SzAdd(p.size, add) > a
             THEN [p |-> p, r |-> -EMSGSIZE, start |-> 0]
             ELSE IF AllocFails(p)
             THEN [p |-> Allocated(p), r |-> -ENOMEM, start |-> 0]
             ELSE [p |-> [Allocated(p) EXCEPT !.allocated = a,
                                              !.size = SzAdd(p.size, add)],
                   r |-> 0, start |-> p.size]
    ELSE [p |-> [p EXCEPT !.size = SzAdd(p.size, add)], r |-> 0, start |-> p.size]

dns_packet_truncate(p, sz) ==
    IF p.size <= sz THEN p
    ELSE [p EXCEPT !.names = [s \in {k \in DOMAIN p.names : p.names[k] < sz}
                                  |-> p.names[s]],
                   !.size = sz]

(***************************************************************************)
(* The append primitives.  Each yields the packet, the status r and start. *)
(***************************************************************************)
\* The one member of a set of one member; Only({f(x) : x \in {v}}) is f(v)
\* with v computed once.
Only(S) == CHOOSE x \in S : TRUE

\* d: the byte every octet of the blob holds, l: its length
dns_packet_append_blob(p, d, l) ==
    Only({ IF e.r < 0 THEN e
           ELSE [e EXCEPT !.p.data = PutFill(e.p.data, e.start, l, d)] :
           e \in {dns_packet_extend(p, l)} })

\* Write the byte sequence bytes at the end of the packet (extend and memcpy)
AppendBytes(p, bytes) ==
    Only({ IF e.r < 0 THEN e
           ELSE [e EXCEPT !.p.data = PutBytes(e.p.data, e.start, bytes)] :
           e \in {dns_packet_extend(p, Len(bytes))} })

dns_packet_append_uint8(p, v) == AppendBytes(p, <<v % 256>>)

dns_packet_append_uint16(p, v) == AppendBytes(p, Be16(v))

dns_packet_append_uint32(p, v) == AppendBytes(p, Be32(v))

\* s: the octets of the string
dns_packet_append_raw_string(p, s) ==
    IF Len(s) > 255 THEN [p |-> p, r |-> -E2BIG, start |-> 0]
    ELSE AppendBytes(p, <<Len(s)>> \o s)

dns_packet_append_string(p, s) == dns_packet_append_raw_string(p, s)

ToLower(c) == IF c >= 65 /\ c <= 90 THEN c - 65 + 97 ELSE c

\* d: the octets of the label
dns_packet_append_label(p, d, canonical_candidate) ==
    IF Len(d) > DNS_LABEL_MAX THEN [p |-> p, r |-> -E2BIG, start |-> 0]
    ELSE IF p.canonical_form /\ canonical_candidate
    THEN AppendBytes(p, <<Len(d)>> \o [i \in 1..Len(d) |-> ToLower(d[i])])
    ELSE AppendBytes(p, <<Len(d)>> \o d)

(***************************************************************************)
(* The name encoder.                                                       *)
(***************************************************************************)
\* dns_name_hash_ops compares names without regard to ASCII case: the key of
\* a name in the compression map is the name in lower case.
NameKey(name) == [i \in 1..Len(name) |-> [j \in 1..Len(name[i]) |-> ToLower(name[i][j])]]

\* hashmap_get: the stored offset, 0 (NULL) when the key is absent
hashmap_get(names, name) ==
    Only({ IF k \in DOMAIN names THEN names[k] ELSE 0 : k \in {NameKey(name)} })

\* hashmap_put: -EEXIST when the key is present with another value, 0 when it
\* is present with this value, 1 when the entry was added
hashmap_put(p, name, n) ==
    Only({ IF k \in DOMAIN p.names
           THEN [p |-> p, r |-> IF p.names[k] = n THEN 0 ELSE -EEXIST]
           ELSE IF AllocFails(p) THEN [p |-> Allocated(p), r |-> -ENOMEM]
           ELSE [p |-> [Allocated(p) EXCEPT !.names = MapPut(p.names, k, n)], r |-> 1] :
           k \in {NameKey(name)} })

\* "goto fail" of an append function: truncate to saved_size and return r
AppendFail(q, saved_size, r) ==
    [p |-> dns_packet_truncate(q, saved_size), r |-> r, start |-> 0]

\* The label was appended (result l): enter the name in the compression map.
\* hashmap_ensure_allocated allocates the map when it is absent.
AppendNameRemember(l, name, saved_size) ==
    IF DOMAIN l.p.names = {} /\ AllocFails(l.p)
    THEN AppendFail(Allocated(l.p), saved_size, -ENOMEM)
    ELSE Only({ IF h.r < 0 THEN AppendFail(h.p, saved_size, h.r)
                ELSE [p |-> h.p, r |-> 0, start |-> l.start] :
                h \in {hashmap_put(IF DOMAIN l.p.names = {} THEN Allocated(l.p) ELSE l.p,
                                   name, l.start)} })

\* One round of the while loop of dns_packet_append_name for a name that is
\* not empty and not replaced by a pointer: s = strdup(name), the label
\* (dns_label_unescape yields it; the labels handled here are ASCII, which
\* dns_label_apply_idna and dns_label_undo_idna leave alone), the map.
AppendNameRound(p, name, allow_compression, canonical_candidate, saved_size) ==
    IF AllocFails(p) THEN AppendFail(Allocated(p), saved_size, -ENOMEM)
    ELSE Only({ IF l.r < 0 THEN AppendFail(l.p, saved_size, l.r)
                ELSE IF allow_compression
                THEN AppendNameRemember(l, name, saved_size)
                ELSE [p |-> l.p, r |-> 0, start |-> l.start] :
                l \in {dns_packet_append_label(Allocated(p), Head(name),
                                               canonical_candidate)} })

RECURSIVE AppendNameLoop(_, _, _, _, _)
\* The while loop of dns_packet_append_name and what follows it; name is the
\* part of the name not yet emitted.
AppendNameLoop(p, name, allow_compression, canonical_candidate, saved_size) ==
    IF name = <<>>
    THEN \* the terminating octet: its failure returns without "goto fail"
         Only({ IF z.r < 0 THEN [p |-> z.p, r |-> z.r, start |-> 0]
                ELSE [p |-> z.p, r |-> 0, start |-> saved_size] :
                z \in {dns_packet_append_uint8(p, 0)} })
    ELSE
    Only({ IF n > 0 /\ n < 16384
           THEN Only({ IF w.r < 0 THEN AppendFail(w.p, saved_size, w.r)
                       ELSE [p |-> w.p, r |-> 0, start |-> saved_size] :
                       w \in {dns_packet_append_uint16(p, 49152 + n)} })
           ELSE Only({ IF d.r < 0 THEN d
                       ELSE AppendNameLoop(d.p, Tail(name), allow_compression,
                                           canonical_candidate, saved_size) :
                       d \in {AppendNameRound(p, name, allow_compression,
                                              canonical_candidate, saved_size)} }) :
           n \in {IF allow_compression THEN hashmap_get(p.names, name) ELSE 0} })

dns_packet_append_name(p, name, allow_compression, canonical_candidate) ==
    AppendNameLoop(p, name,
                   IF p.refuse_compression THEN FALSE ELSE allow_compression,
                   canonical_candidate, p.size)

(***************************************************************************)
(* The type bitmap encoder.                                                *)
(***************************************************************************)
\* types: the bytes bitmaps[0..31]; length of them are written
dns_packet_append_type_window(p, window, length, types) ==
    Only({ IF a.r < 0 THEN AppendFail(a.p, p.size, a.r)
           ELSE Only({ IF b.r < 0 THEN AppendFail(b.p, p.size, b.r)
                       ELSE Only({ IF c.r < 0 THEN AppendFail(c.p, p.size, c.r)
                                   ELSE [p |-> c.p, r |-> 0, start |-> p.size] :
                                   c \in {AppendBytes(b.p, [i \in 1..length |-> types[i - 1]])} }) :
                       b \in {dns_packet_append_uint8(a.p, length)} }) :
           a \in {dns_packet_append_uint8(p, window)} })

NoBitmaps == [i \in 0..31 |-> 0]

\* The bits of a byte counted from the least significant one
SetTypeBit_low(bitmaps, entry) ==
    [bitmaps EXCEPT ![entry \div 8] =
        IF Bit(@, entry % 8) = 1 THEN @ ELSE @ + 2^(entry % 8)]

\* bitmaps[entry / 8] |= 1 << (7 - (entry % 8))
SetTypeBit(bitmaps, entry) ==
    [bitmaps EXCEPT ![entry \div 8] =
        IF Bit(@, 7 - (entry % 8)) = 1 THEN @ ELSE @ + 2^(7 - (entry % 8))]

\* The members of the set S in increasing order (BITMAP_FOREACH)
RECURSIVE Ascending(_)
Ascending(S) ==
    IF S = {} THEN <<>>
    ELSE Only({ <<m>> \o Ascending(S \ {m}) : m \in {x \in S : \A y \in S : x <= y} })

RECURSIVE AppendTypesLoop(_, _, _, _, _, _)
AppendTypesLoop(p, todo, window, entry, bitmaps, saved_size) ==
    IF todo = <<>>
    THEN IF bitmaps[entry \div 8] # 0
         THEN Only({ IF w.r < 0 THEN AppendFail(w.p, saved_size, w.r)
                     ELSE [p |-> w.p, r |-> 0, start |-> saved_size] :
                     w \in {dns_packet_append_type_window(p, window, entry \div 8 + 1,
                                                          bitmaps)} })
         ELSE [p |-> p, r |-> 0, start |-> saved_size]
    ELSE
    IF (Head(todo) \div 256) # window /\ bitmaps[entry \div 8] # 0
    THEN Only({ IF w.r < 0 THEN AppendFail(w.p, saved_size, w.r)
                ELSE AppendTypesLoop(w.p, Tail(todo), Head(todo) \div 256,
                                     Head(todo) % 256,
                                     SetTypeBit(NoBitmaps, Head(todo) % 256), saved_size) :
                w \in {dns_packet_append_type_window(p, window, entry \div 8 + 1,
                                                     bitmaps)} })
    ELSE AppendTypesLoop(p, Tail(todo), Head(todo) \div 256, Head(todo) % 256,
                         SetTypeBit(bitmaps, Head(todo) % 256), saved_size)

\* types: a set of 16 bit numbers
dns_packet_append_types(p, types) ==
    AppendTypesLoop(p, Ascending(types), 0, 0, NoBitmaps, p.size)

(***************************************************************************)
(* Sequences of appends that share one "goto fail".                        *)
(***************************************************************************)
\* One append of a sequence: <<"u8", v>>, <<"u16", v>>, <<"u32", v>>,
\* <<"blob", d, l>>, <<"string", s>>, <<"raw_string", s>>,
\* <<"name", name, allow_compression, canonical_candidate>>, <<"types", set>>,
\* <<"memory", bytes>> (dns_packet_append_blob of bytes given one by one)
AppendStep(p, st) ==
    CASE st[1] = "u8" -> dns_packet_append_uint8(p, st[2])
      [] st[1] = "u16" -> dns_packet_append_uint16(p, st[2])
      [] st[1] = "u32" -> dns_packet_append_uint32(p, st[2])
      [] st[1] = "blob" -> dns_packet_append_blob(p, st[2], st[3])
      [] st[1] = "memory" -> AppendBytes(p, st[2])
      [] st[1] = "string" -> dns_packet_append_string(p, st[2])
      [] st[1] = "raw_string" -> dns_packet_append_raw_string(p, st[2])
      [] st[1] = "name" -> dns_packet_append_name(p, st[2], st[3], st[4])
      [] st[1] = "types" -> dns_packet_append_types(p, st[2])

\* Run the appends in order; the first that fails ends the run with
\* "goto fail", which truncates the packet to saved_size.
RECURSIVE AppendSteps(_, _, _)
AppendSteps(p, steps, saved_size) ==
    IF steps = <<>> THEN [p |-> p, r |-> 0, start |-> saved_size]
    ELSE Only({ IF e.r < 0 THEN AppendFail(e.p, saved_size, e.r)
                ELSE AppendSteps(e.p, Tail(steps), saved_size) :
                e \in {AppendStep(p, Head(steps))} })

(***************************************************************************)
(* dns_packet_append_key, dns_packet_append_opt_rr, dns_packet_append_rr   *)
(***************************************************************************)
\* k: [name, type, class]
dns_packet_append_key(p, k) ==
    AppendSteps(p, << <<"name", k.name, TRUE, TRUE>>,
                      <<"u16", k.type>>,
                      <<"u16", k.class>> >>, p.size)

dns_packet_append_opt_rr(p, max_udp_size, edns0_do) ==
    AppendSteps(p, << <<"u8", 0>>,
                      <<"u16", DNS_TYPE_OPT>>,
                      <<"u16", max_udp_size>>,
                      <<"u16", 0>>,
                      <<"u16", IF edns0_do THEN EDNS0_OPT_DO ELSE 0>>,
                      <<"u16", 0>> >>, p.size)

\* The appends of the rdata of rr, by the switch on the record's type
RdataSteps(rr) ==
    LET t == IF rr.unparseable THEN -1 ELSE rr.key.type
    IN
    CASE t = DNS_TYPE_SRV ->
           << <<"u16", rr.srv.priority>>, <<"u16", rr.srv.weight>>,
              <<"u16", rr.srv.port>>, <<"name", rr.srv.name, TRUE, FALSE>> >>
      [] t \in {DNS_TYPE_PTR, DNS_TYPE_NS, DNS_TYPE_CNAME, DNS_TYPE_DNAME} ->
           << <<"name", rr.ptr.name, TRUE, FALSE>> >>
      [] t = DNS_TYPE_HINFO ->
           << <<"string", rr.hinfo.cpu>>, <<"string", rr.hinfo.os>> >>
      [] t \in {DNS_TYPE_SPF, DNS_TYPE_TXT} ->
           IF rr.txt.items = <<>> THEN << <<"raw_string", <<>> >> >>
           ELSE [i \in 1..Len(rr.txt.items) |-> <<"raw_string", rr.txt.items[i]>>]
      [] t = DNS_TYPE_A -> << <<"blob", rr.a.in_addr, 4>> >>
      [] t = DNS_TYPE_AAAA -> << <<"blob", rr.aaaa.in6_addr, 16>> >>
      [] t = DNS_TYPE_SOA ->
           << <<"name", rr.soa.mname, TRUE, FALSE>>, <<"name", rr.soa.rname, TRUE, FALSE>>,
              <<"u32", rr.soa.serial>>, <<"u32", rr.soa.refresh>>, <<"u32", rr.soa.retry>>,
              <<"u32", rr.soa.expire>>, <<"u32", rr.soa.minimum>> >>
      [] t = DNS_TYPE_MX ->
           << <<"u16", rr.mx.priority>>, <<"name", rr.mx.exchange, TRUE, FALSE>> >>
      [] t = DNS_TYPE_LOC ->
           << <<"u8", rr.loc.version>>, <<"u8", rr.loc.size>>, <<"u8", rr.loc.horiz_pre>>,
              <<"u8", rr.loc.vert_pre>>, <<"u32", rr.loc.latitude>>,
              <<"u32", rr.loc.longitude>>, <<"u32", rr.loc.altitude>> >>
      [] t = DNS_TYPE_DS ->
           << <<"u16", rr.ds.key_tag>>, <<"u8", rr.ds.algorithm>>,
              <<"u8", rr.ds.digest_type>>, <<"blob", rr.ds.digest, rr.ds.digest_size>> >>
      [] t = DNS_TYPE_SSHFP ->
           << <<"u8", rr.sshfp.algorithm>>, <<"u8", rr.sshfp.fptype>>,
              <<"blob", rr.sshfp.fingerprint, rr.sshfp.fingerprint_size>> >>
      [] t = DNS_TYPE_DNSKEY ->
           << <<"u16", rr.dnskey.flags>>, <<"u8", rr.dnskey.protocol>>,
              <<"u8", rr.dnskey.algorithm>>, <<"blob", rr.dnskey.key, rr.dnskey.key_size>> >>
      [] t = DNS_TYPE_RRSIG ->
           << <<"u16", rr.rrsig.type_covered>>, <<"u8", rr.rrsig.algorithm>>,
              <<"u8", rr.rrsig.labels>>, <<"u32", rr.rrsig.original_ttl>>,
              <<"u32", rr.rrsig.expiration>>, <<"u32", rr.rrsig.inception>>,
              <<"u16", rr.rrsig.key_tag>>, <<"name", rr.rrsig.signer, FALSE, TRUE>>,
              <<"blob", rr.rrsig.signature, rr.rrsig.signature_size>> >>
      [] t = DNS_TYPE_NSEC ->
           << <<"name", rr.nsec.next_domain_name, FALSE, FALSE>>,
              <<"types", rr.nsec.types>> >>
      [] t = DNS_TYPE_NSEC3 ->
           << <<"u8", rr.nsec3.algorithm>>, <<"u8", rr.nsec3.flags>>,
              <<"u16", rr.nsec3.iterations>>, <<"u8", rr.nsec3.salt_size>>,
              <<"blob", rr.nsec3.salt, rr.nsec3.salt_size>>,
              <<"u8", rr.nsec3.next_hashed_name_size>>,
              <<"blob", rr.nsec3.next_hashed_name, rr.nsec3.next_hashed_name_size>>,
              <<"types", rr.nsec3.types>> >>
      [] OTHER -> IF "bytes" \in DOMAIN rr.generic
                  THEN << <<"memory", SubSeq(rr.generic.bytes, 1, rr.generic.size)>> >>
                  ELSE << <<"blob", rr.generic.data, rr.generic.size>> >>

\* "goto fail" of dns_packet_append_rr
AppendRrFail(q, saved_size, r) ==
    [p |-> dns_packet_truncate(q, saved_size), r |-> r, start |-> 0, rdata_start |-> 0]

\* The bytes from the RDLENGTH field on
RdataSize_field(size, rdlength_offset) == SzSub(size, rdlength_offset)

\* "rdlength = p->size - rdlength_offset - sizeof(uint16_t)"
RdataSize(size, rdlength_offset) == SzSub(SzSub(size, rdlength_offset), 2)

\* The end of dns_packet_append_rr, after the rdata (d: the packet then):
\* RDLENGTH is computed and written into the field at rdlength_offset
AppendRrLength(d, saved_size, rdlength_offset) ==
    Only({ IF rdlength > 65535 THEN AppendRrFail(d, saved_size, ENOSPC)
           ELSE Only({ IF w.r < 0 THEN AppendRrFail(w.p, saved_size, w.r)
                       ELSE [p |-> [w.p EXCEPT !.size = d.size], r |-> 0,
                             start |-> saved_size,
                             rdata_start |-> rdlength_offset + 2 - saved_size] :
                       w \in {dns_packet_append_uint16([d EXCEPT !.size = rdlength_offset],
                                                       rdlength)} }) :
           rdlength \in {RdataSize(d.size, rdlength_offset)} })

\* Result: the packet, r, start and rdata_start
dns_packet_append_rr(p, rr) ==
    Only({ IF h.r < 0 THEN AppendRrFail(h.p, p.size, h.r)
           ELSE Only({ IF d.r < 0 THEN AppendRrFail(d.p, p.size, d.r)
                       ELSE AppendRrLength(d.p, p.size, h.p.size - 2) :
                       d \in {AppendSteps(h.p, RdataSteps(rr), p.size)} }) :
           h \in {Only({ IF k.r < 0 THEN k
                         \* the TTL and the RDLENGTH field, initially 0
                         ELSE AppendSteps(k.p, << <<"u32", rr.ttl>>, <<"u16", 0>> >>,
                                          p.size) :
                         k \in {dns_packet_append_key(p, rr.key)} })} })

(***************************************************************************)
(* The read primitives.  Each yields the packet, the status r and what the *)
(* call returns through its pointers.                                      *)
(***************************************************************************)
dns_packet_read(p, sz) ==
    IF SzAdd(p.rindex, sz) > p.size
    THEN [p |-> p, r |-> -EMSGSIZE, start |-> 0]
    ELSE [p |-> [p EXCEPT !.rindex = SzAdd(p.rindex, sz)], r |-> 0, start |-> p.rindex]

\* idx <= p->size and idx >= DNS_PACKET_HEADER_SIZE are asserted
dns_packet_rewind(p, idx) == [p EXCEPT !.rindex = idx]

dns_packet_read_blob(p, sz) == dns_packet_read(p, sz)

\* malloc of a size no memory holds fails
TooLargeToAllocate(size) == size >= SIZE_T_MOD \div 2

\* Result: ret as the place of the copied bytes, and size (ret_size, which
\* is written on success only)
dns_packet_read_memdup(p, size) ==
    Only({ IF e.r < 0 THEN [p |-> e.p, r |-> e.r, start |-> 0, size |-> 0]
           ELSE IF size <= 0 THEN [p |-> e.p, r |-> 0, start |-> e.start, size |-> size]
           ELSE IF TooLargeToAllocate(size) \/ AllocFails(e.p)
           THEN [p |-> Allocated(e.p), r |-> -ENOMEM, start |-> 0, size |-> 0]
           ELSE [p |-> Allocated(e.p), r |-> 0, start |-> e.start, size |-> size] :
           e \in {dns_packet_read(p, size)} })

\* The big endian number in the n bytes at off
RECURSIVE BeAt(_, _, _)
BeAt(p, off, n) ==
    IF n = 0 THEN 0 ELSE BeAt(p, off, n - 1) * 256 + ByteAt(p, off + n - 1)

\* dns_packet_read_uint8 and _uint16 are dns_packet_read of n bytes and
\* the conversion of what they hold
ReadUint(p, n) ==
    Only({ IF e.r < 0 THEN [p |-> e.p, r |-> e.r, start |-> 0, v |-> 0]
           ELSE [p |-> e.p, r |-> 0, start |-> e.start, v |-> BeAt(p, e.start, n)] :
           e \in {dns_packet_read(p, n)} })

dns_packet_read_uint8(p) == ReadUint(p, 1)

dns_packet_read_uint16(p) == ReadUint(p, 2)

dns_packet_read_uint32(p) ==
    Only({ IF e.r < 0 THEN [p |-> e.p, r |-> e.r, start |-> 0, v |-> <<0, 0>>]
           ELSE [p |-> e.p, r |-> 0, start |-> e.start,
                 v |-> <<BeAt(p, e.start, 2), BeAt(p, e.start + 2, 2)>>] :
           e \in {dns_packet_read(p, 4)} })

\* The bytes at off .. off + n - 1
BytesAt(p, off, n) == [i \in 1..n |-> ByteAt(p, off + i - 1)]

\* utf8_is_valid, for one and two byte sequences
RECURSIVE utf8_is_valid(_)
utf8_is_valid(t) ==
    IF t = <<>> THEN TRUE
    ELSE IF t[1] < 128 THEN utf8_is_valid(Tail(t))
    ELSE IF t[1] >= 194 /\ t[1] <= 223 /\ Len(t) >= 2 /\ t[2] >= 128 /\ t[2] <= 191
    THEN utf8_is_valid(Tail(Tail(t)))
    ELSE FALSE

\* Result: ret as start of the string's octets (off), and size
dns_packet_read_raw_string(p) ==
    Only({ IF c.r < 0
           THEN [p |-> dns_packet_rewind(c.p, p.rindex), r |-> c.r,
                 start |-> 0, off |-> 0, size |-> 0]
           ELSE Only({ IF d.r < 0
                       THEN [p |-> dns_packet_rewind(d.p, p.rindex), r |-> d.r,
                             start |-> 0, off |-> 0, size |-> 0]
                       ELSE [p |-> d.p, r |-> 0, start |-> p.rindex,
                             off |-> d.start, size |-> c.v] :
                       d \in {dns_packet_read(c.p, c.v)} }) :
           c \in {dns_packet_read_uint8(p)} })

\* "goto fail" of dns_packet_read_string
ReadStringFail(q, saved_rindex, r) ==
    [p |-> dns_packet_rewind(q, saved_rindex), r |-> r, start |-> 0, s |-> <<>>]

\* dns_packet_read_string once the length byte and the octets t are read:
\* memchr for a NUL, memdup, utf8_is_valid
ReadStringCheck(q, saved_rindex, t) ==
    IF \E i \in 1..Len(t) : t[i] = 0 THEN ReadStringFail(q, saved_rindex, -EBADMSG)
    ELSE IF AllocFails(q) THEN ReadStringFail(Allocated(q), saved_rindex, -ENOMEM)
    ELSE IF ~utf8_is_valid(t) THEN ReadStringFail(Allocated(q), saved_rindex, -EBADMSG)
    ELSE [p |-> Allocated(q), r |-> 0, start |-> saved_rindex, s |-> t]

dns_packet_read_string(p) ==
    Only({ IF c.r < 0 THEN ReadStringFail(c.p, p.rindex, c.r)
           ELSE Only({ IF d.r < 0 THEN ReadStringFail(d.p, p.rindex, d.r)
                       ELSE ReadStringCheck(d.p, p.rindex, BytesAt(p, d.start, c.v)) :
                       d \in {dns_packet_read(c.p, c.v)} }) :
           c \in {dns_packet_read_uint8(p)} })

(***************************************************************************)
(* The name decoder.                                                       *)
(***************************************************************************)
\* "goto fail" of dns_packet_read_name
ReadNameFail(q, saved_rindex, r, jumps) ==
    [p |-> dns_packet_rewind(q, saved_rindex), r |-> r, start |-> 0,
     name |-> <<>>, jumps |-> jumps, hang |-> FALSE]

\* The end of the name: GREEDY_REALLOC for the final NUL, then the cursor is
\* put behind the first pointer when one was followed
ReadNameEnd(q, saved_rindex, after_rindex, ret, jumps) ==
    IF AllocFails(q) THEN ReadNameFail(Allocated(q), saved_rindex, -ENOMEM, jumps)
    ELSE [p |-> IF after_rindex # 0
                THEN dns_packet_rewind(Allocated(q), after_rindex)
                ELSE Allocated(q),
          r |-> 0, start |-> saved_rindex, name |-> ret, jumps |-> jumps,
          hang |-> FALSE]

\* A check of the pointer that lets it go into the header
PointerRefused_header(ptr, jump_barrier) == ptr >= jump_barrier

\* The pointer does not go to a prior occurrence of a name in the message
PointerRefused(ptr, jump_barrier) ==
    ptr < DNS_PACKET_HEADER_SIZE \/ ptr >= jump_barrier

\* A jump that leaves jump_barrier where it was
JumpBarrierAfter_kept(ptr, jump_barrier) == jump_barrier

\* jump_barrier after the jump to ptr
JumpBarrierAfter(ptr, jump_barrier) == ptr

\* No offset kept to come back to
AfterRindex_none(after_rindex, rindex) == 0

\* "if (after_rindex == 0) after_rindex = p->rindex": the offset behind the
\* first pointer
AfterRindex(after_rindex, rindex) == IF after_rindex = 0 THEN rindex ELSE after_rindex

RECURSIVE ReadNameLoop(_, _, _, _, _, _, _, _)
\* The for (;;) loop of dns_packet_read_name and what follows it.  ret holds
\* the labels read so far, jumps the targets of the pointers followed so far,
\* fuel the iterations left before the loop is given up (hang).
ReadNameLoop(p, allow_compression, saved_rindex, after_rindex, jump_barrier, ret, jumps, fuel) ==
    IF fuel = 0
    THEN [p |-> p, r |-> 0, start |-> 0, name |-> ret, jumps |-> jumps, hang |-> TRUE]
    ELSE
    Only({
      IF c.r < 0 THEN ReadNameFail(c.p, saved_rindex, c.r, jumps)
      ELSE IF c.v = 0
      THEN ReadNameEnd(c.p, saved_rindex, after_rindex, ret, jumps)
      ELSE IF c.v <= 63
      THEN \* a literal label
           Only({ IF l.r < 0 THEN ReadNameFail(l.p, saved_rindex, l.r, jumps)
                  ELSE IF AllocFails(l.p)
                  THEN ReadNameFail(Allocated(l.p), saved_rindex, -ENOMEM, jumps)
                  ELSE ReadNameLoop(Allocated(l.p), allow_compression, saved_rindex,
                                    after_rindex, jump_barrier,
                                    Append(ret, BytesAt(p, l.start, c.v)), jumps,
                                    fuel - 1) :
                  l \in {dns_packet_read(c.p, c.v)} })
      ELSE IF allow_compression /\ c.v >= 192
      THEN \* a pointer: ptr = (c & ~0xc0) << 8 | d
           Only({ IF d.r < 0 THEN ReadNameFail(d.p, saved_rindex, d.r, jumps)
                  ELSE IF PointerRefused((c.v - 192) * 256 + d.v, jump_barrier)
                  THEN ReadNameFail(d.p, saved_rindex, -EBADMSG, jumps)
                  ELSE ReadNameLoop(dns_packet_rewind(d.p, (c.v - 192) * 256 + d.v),
                                    allow_compression, saved_rindex,
                                    AfterRindex(after_rindex, d.p.rindex),
                                    JumpBarrierAfter((c.v - 192) * 256 + d.v, jump_barrier),
                                    ret,
                                    Append(jumps, (c.v - 192) * 256 + d.v), fuel - 1) :
                  d \in {dns_packet_read_uint8(c.p)} })
      ELSE ReadNameFail(c.p, saved_rindex, -EBADMSG, jumps) :
      c \in {dns_packet_read_uint8(p)} })

dns_packet_read_name(p, allow_compression) ==
    ReadNameLoop(p, IF p.refuse_compression THEN FALSE ELSE allow_compression,
                 p.rindex, 0, p.rindex, <<>>, <<>>, MaxIter)

(***************************************************************************)
(* The type bitmap decoder.                                                *)
(***************************************************************************)
\* dns_type_is_pseudo (dns-type.c): 0, TKEY, TSIG, IXFR, AXFR, ANY and OPT
dns_type_is_pseudo(n) == n \in {0, 249, 250, 251, 252, 255, DNS_TYPE_OPT}

\* bitmap_set (bitmap.c) enlarges the bitmap when n lies beyond the words of
\* 64 bits it has
BitmapGrows(types, n) == \A t \in types : t \div 64 < n \div 64

RECURSIVE WindowBits(_, _, _, _, _, _, _)
\* The while (bitmask) loop over one byte b of the bitmap.  Result: the
\* packet, r, bit, the types, and hang when the loop was given up.
WindowBits(q, b, window, bit, bitmask, types, fuel) ==
    IF bitmask = 0
    THEN [p |-> q, r |-> 0, bit |-> bit, types |-> types, hang |-> FALSE]
    ELSE IF fuel = 0
    THEN [p |-> q, r |-> 0, bit |-> bit, types |-> types, hang |-> TRUE]
    ELSE IF (b \div bitmask) % 2 = 1
    THEN IF dns_type_is_pseudo(window * 256 + bit)
         THEN \* continue
              WindowBits(q, b, window, bit, bitmask, types, fuel - 1)
         ELSE IF BitmapGrows(types, window * 256 + bit) /\ AllocFails(q)
         THEN \* bitmap_set failed: goto fail
              [p |-> Allocated(q), r |-> -ENOMEM, bit |-> bit, types |-> types,
               hang |-> FALSE]
         ELSE WindowBits(IF BitmapGrows(types, window * 256 + bit)
                         THEN Allocated(q) ELSE q,
                         b, window, (bit + 1) % 256, bitmask \div 2,
                         types \cup {window * 256 + bit}, fuel - 1)
    ELSE WindowBits(q, b, window, (bit + 1) % 256, bitmask \div 2, types, fuel - 1)

RECURSIVE WindowBytes(_, _, _, _, _, _, _, _)
\* The for loop over the length bytes of the bitmap, which start at off.
\* Result: the packet, r, found, the types, hang
WindowBytes(p, off, length, window, i, bit, found, types) ==
    IF i >= length
    THEN [p |-> p, r |-> 0, found |-> found, types |-> types, hang |-> FALSE]
    ELSE IF ByteAt(p, off + i) = 0
    THEN WindowBytes(p, off, length, window, i + 1, (bit + 8) % 256, FALSE, types)
    ELSE Only({ IF w.hang \/ w.r < 0
                THEN [p |-> w.p, r |-> w.r, found |-> TRUE, types |-> w.types,
                      hang |-> w.hang]
                ELSE WindowBytes(w.p, off, length, window, i + 1, w.bit, TRUE, w.types) :
                w \in {WindowBits(p, ByteAt(p, off + i), window, bit, 128, types,
                                  MaxIter)} })

\* "goto fail" of the functions that read type bitmaps
ReadTypesFail(q, saved_rindex, r, types) ==
    [p |-> dns_packet_rewind(q, saved_rindex), r |-> r, types |-> types, hang |-> FALSE]

\* dns_packet_read_type_window once the window number and the length are
\* read (q: the packet then)
ReadTypeWindowBitmap(q, saved_rindex, window, length, types) ==
    IF length = 0 \/ length > 32
    THEN \* return -EBADMSG
         [p |-> q, r |-> -EBADMSG, types |-> types, hang |-> FALSE]
    ELSE Only({ IF bitmap.r < 0 THEN ReadTypesFail(bitmap.p, saved_rindex, bitmap.r, types)
                ELSE Only({ IF w.hang
                            THEN [p |-> w.p, r |-> 0, types |-> w.types, hang |-> TRUE]
                            ELSE IF w.r < 0
                            THEN ReadTypesFail(w.p, saved_rindex, w.r, w.types)
                            ELSE IF ~w.found
                            THEN \* return -EBADMSG
                                 [p |-> w.p, r |-> -EBADMSG, types |-> w.types,
                                  hang |-> FALSE]
                            ELSE [p |-> w.p, r |-> 0, types |-> w.types,
                                  hang |-> FALSE] :
                            w \in {WindowBytes(bitmap.p, bitmap.start, length, window,
                                               0, 0, FALSE, types)} }) :
                bitmap \in {dns_packet_read(q, length)} })

\* types: the bitmap so far.  Result: the packet, r, the bitmap, hang
dns_packet_read_type_window(p, types) ==
    \* bitmap_ensure_allocated
    IF AllocFails(p) THEN ReadTypesFail(Allocated(p), p.rindex, -ENOMEM, types)
    ELSE Only({ IF window.r < 0 THEN ReadTypesFail(window.p, p.rindex, window.r, types)
                ELSE Only({ IF length.r < 0
                            THEN ReadTypesFail(length.p, p.rindex, length.r, types)
                            ELSE ReadTypeWindowBitmap(length.p, p.rindex, window.v,
                                                      length.v, types) :
                            length \in {dns_packet_read_uint8(window.p)} }) :
                window \in {dns_packet_read_uint8(Allocated(p))} })

RECURSIVE ReadTypeWindowsLoop(_, _, _, _)
ReadTypeWindowsLoop(p, types, size, saved_rindex) ==
    IF p.rindex < SzAdd(saved_rindex, size)
    THEN Only({ IF w.hang THEN w
                ELSE IF w.r < 0 THEN ReadTypesFail(w.p, saved_rindex, w.r, types)
                ELSE IF w.p.rindex > SzAdd(saved_rindex, size)
                THEN ReadTypesFail(w.p, saved_rindex, -EBADMSG, types)
                ELSE ReadTypeWindowsLoop(w.p, w.types, size, saved_rindex) :
                w \in {dns_packet_read_type_window(p, types)} })
    ELSE IF p.rindex # SzAdd(saved_rindex, size)
    THEN ReadTypesFail(p, saved_rindex, -EBADMSG, types)
    ELSE [p |-> p, r |-> 0, types |-> types, hang |-> FALSE]

dns_packet_read_type_windows(p, size) == ReadTypeWindowsLoop(p, {}, size, p.rindex)

(***************************************************************************)
(* dns_packet_read_key                                                     *)
(***************************************************************************)
NoKey == [name |-> <<>>, type |-> 0, class |-> 0]

\* "goto fail" of dns_packet_read_key
ReadKeyFail(q, saved_rindex, r) ==
    [p |-> dns_packet_rewind(q, saved_rindex), r |-> r, start |-> 0,
     key |-> NoKey, cache_flush |-> FALSE, hang |-> FALSE]

\* dns_packet_read_key once name, type and class are read (q: the packet
\* then): the cache-flush bit of mDNS, dns_resource_key_new_consume
\* The key made of the fields as they are on the wire
ReadKeyMake_plain(q, saved_rindex, name, type, class) ==
    IF AllocFails(q) THEN ReadKeyFail(Allocated(q), saved_rindex, -ENOMEM)
    ELSE [p |-> Allocated(q), r |-> 0, start |-> saved_rindex,
          key |-> [name |-> name, type |-> type, class |-> class],
          cache_flush |-> FALSE, hang |-> FALSE]

ReadKeyMake(q, saved_rindex, name, type, class) ==
    IF AllocFails(q) THEN ReadKeyFail(Allocated(q), saved_rindex, -ENOMEM)
    ELSE IF q.protocol = "mdns" /\ type # DNS_TYPE_OPT
            /\ (class \div MDNS_RR_CACHE_FLUSH) % 2 = 1
    THEN [p |-> Allocated(q), r |-> 0, start |-> saved_rindex,
          key |-> [name |-> name, type |-> type, class |-> class - MDNS_RR_CACHE_FLUSH],
          cache_flush |-> TRUE, hang |-> FALSE]
    ELSE [p |-> Allocated(q), r |-> 0, start |-> saved_rindex,
          key |-> [name |-> name, type |-> type, class |-> class],
          cache_flush |-> FALSE, hang |-> FALSE]

\* Result: the packet, r, the key [name, type, class], cache_flush, hang
dns_packet_read_key(p) ==
    Only({
      IF name.hang
      THEN [p |-> name.p, r |-> 0, start |-> 0, key |-> NoKey, cache_flush |-> FALSE,
            hang |-> TRUE]
      ELSE IF name.r < 0 THEN ReadKeyFail(name.p, p.rindex, name.r)
      ELSE Only({ IF type.r < 0 THEN ReadKeyFail(type.p, p.rindex, type.r)
                  ELSE Only({ IF class.r < 0 THEN ReadKeyFail(class.p, p.rindex, class.r)
                              ELSE ReadKeyMake(class.p, p.rindex, name.name, type.v,
                                               class.v) :
                              class \in {dns_packet_read_uint16(type.p)} }) :
                  type \in {dns_packet_read_uint16(name.p)} }) :
      name \in {dns_packet_read_name(p, TRUE)} })

(***************************************************************************)
(* dns_packet_read_rr                                                      *)
(***************************************************************************)
\* dns_class_is_valid_rr, dns_type_is_valid_rr (dns-type.c): class ANY and
\* the types ANY, AXFR and IXFR belong to no record
dns_class_is_valid_rr(class) == class # 255

dns_type_is_valid_rr(type) == type \notin {255, 252, 251}

\* One read of a sequence: <<"u8">>, <<"u16">>, <<"u32">>, <<"blob", n>>,
\* <<"string">>, <<"name", allow_compression>>.  Result: p, r, v, hang.
ReadStep(p, st) ==
    CASE st[1] = "u8" ->
           Only({ [p |-> e.p, r |-> e.r, v |-> e.v, hang |-> FALSE] :
                  e \in {dns_packet_read_uint8(p)} })
      [] st[1] = "u16" ->
           Only({ [p |-> e.p, r |-> e.r, v |-> e.v, hang |-> FALSE] :
                  e \in {dns_packet_read_uint16(p)} })
      [] st[1] = "u32" ->
           Only({ [p |-> e.p, r |-> e.r, v |-> e.v, hang |-> FALSE] :
                  e \in {dns_packet_read_uint32(p)} })
      [] st[1] = "blob" ->
           Only({ [p |-> e.p, r |-> e.r, v |-> e.start, hang |-> FALSE] :
                  e \in {dns_packet_read_blob(p, st[2])} })
      [] st[1] = "string" ->
           Only({ [p |-> e.p, r |-> e.r, v |-> e.s, hang |-> FALSE] :
                  e \in {dns_packet_read_string(p)} })
      [] st[1] = "name" ->
           Only({ [p |-> e.p, r |-> e.r, v |-> e.name, hang |-> e.hang] :
                  e \in {dns_packet_read_name(p, st[2])} })

\* Run the reads in order; the first that fails ends the run ("goto fail" is
\* left to the caller).  Result: p, r, vals (the values read), hang.
RECURSIVE ReadSteps(_, _, _)
ReadSteps(p, steps, vals) ==
    IF steps = <<>> THEN [p |-> p, r |-> 0, vals |-> vals, hang |-> FALSE]
    ELSE Only({ IF e.hang \/ e.r < 0
                THEN [p |-> e.p, r |-> e.r, vals |-> vals, hang |-> e.hang]
                ELSE ReadSteps(e.p, Tail(steps), Append(vals, e.v)) :
                e \in {ReadStep(p, Head(steps))} })

loc_size_ok(size) ==
    (size \div 16) <= 9 /\ (size % 16) <= 9 /\ ((size \div 16) > 0 \/ (size % 16) = 0)

\* What the switch on the record's type yields: the packet, r, returned (the
\* function was left by a "return" inside the switch), hang, unparseable and
\* the fields of the record
Rdata(q, r, returned, hang, unparseable, rdata) ==
    [p |-> q, r |-> r, returned |-> returned, hang |-> hang,
     unparseable |-> unparseable, rdata |-> rdata]

\* A case of the switch that is a run of reads
ReadPlain(p, steps) ==
    Only({ Rdata(f.p, f.r, FALSE, f.hang, FALSE, f.vals) :
           f \in {ReadSteps(p, steps, <<>>)} })

RECURSIVE ReadTxtItems(_, _, _)
\* The while loop of the TXT case, which is left by "return r"
ReadTxtItems(p, end, items) ==
    IF p.rindex < end
    THEN Only({ IF e.r < 0 THEN Rdata(e.p, e.r, TRUE, FALSE, FALSE, items)
                ELSE IF AllocFails(e.p)
                THEN Rdata(Allocated(e.p), -ENOMEM, TRUE, FALSE, FALSE, items)
                ELSE ReadTxtItems(Allocated(e.p), end,
                                  Append(items, [off |-> e.off, size |-> e.size])) :
                e \in {dns_packet_read_raw_string(p)} })
    ELSE Rdata(p, 0, FALSE, FALSE, FALSE, items)

\* The TXT and SPF case
ReadTxt(p, rdlength, offset) ==
    IF rdlength <= 0
    THEN IF AllocFails(p) THEN Rdata(Allocated(p), -ENOMEM, TRUE, FALSE, FALSE, <<>>)
         ELSE Rdata(Allocated(p), 0, FALSE, FALSE, FALSE, << [off |-> 0, size |-> 0] >>)
    ELSE ReadTxtItems(p, SzAdd(offset, rdlength), <<>>)

\* The generic case ("unparseable:"): the rdata is kept as it is
ReadGeneric(p, rdlength, unparseable) ==
    Only({ Rdata(e.p, e.r, FALSE, FALSE, unparseable, [off |-> e.start, size |-> e.size]) :
           e \in {dns_packet_read_memdup(p, rdlength)} })

\* The cursor left behind the version byte
LocRewind_stay(q, pos) == q

\* "dns_packet_rewind(p, pos)" of the LOC case, before "goto unparseable"
LocRewind(q, pos) == dns_packet_rewind(q, pos)

\* The LOC case
ReadLoc(p, rdlength) ==
    Only({
      IF t.r < 0 THEN Rdata(t.p, t.r, FALSE, FALSE, FALSE, <<>>)
      ELSE IF t.v = 0
      THEN Only({ \* each of size, horiz_pre, vert_pre is checked when read
                  IF \E i \in 2..4 : i <= Len(f.vals) /\ ~loc_size_ok(f.vals[i])
                  THEN Rdata(f.p, -EBADMSG, FALSE, FALSE, FALSE, f.vals)
                  ELSE Rdata(f.p, f.r, FALSE, FALSE, FALSE, f.vals) :
                  f \in {ReadSteps(t.p, << <<"u8">>, <<"u8">>, <<"u8">>, <<"u32">>,
                                           <<"u32">>, <<"u32">> >>, <<0>>)} })
      ELSE ReadGeneric(LocRewind(t.p, t.start), rdlength, TRUE) :
      t \in {dns_packet_read_uint8(p)} })

\* The end of the DS, SSHFP, DNSKEY and RRSIG cases: a memdup of size bytes
\* whose status is checked (checked) or not, after which the copied size must
\* be positive.  f: the reads before it.
ReadMemdupLast(f, size, checked) ==
    Only({ IF checked /\ e.r < 0 THEN Rdata(e.p, e.r, FALSE, FALSE, FALSE, f.vals)
           ELSE IF e.size <= 0 THEN Rdata(e.p, -EBADMSG, FALSE, FALSE, FALSE, f.vals)
           ELSE Rdata(e.p, e.r, FALSE, FALSE, FALSE,
                      Append(f.vals, [off |-> e.start, size |-> e.size])) :
           e \in {dns_packet_read_memdup(f.p, size)} })

\* DS, SSHFP and DNSKEY: n bytes of fields, then the rest of the rdata
ReadThenMemdup(p, steps, n, rdlength, checked) ==
    Only({ IF f.r < 0 THEN Rdata(f.p, f.r, FALSE, FALSE, FALSE, f.vals)
           ELSE ReadMemdupLast(f, SzSub(rdlength, n), checked) :
           f \in {ReadSteps(p, steps, <<>>)} })

\* The RRSIG case
ReadRrsig(p, rdlength, offset) ==
    Only({ IF f.hang \/ f.r < 0 THEN Rdata(f.p, f.r, FALSE, f.hang, FALSE, f.vals)
           ELSE ReadMemdupLast(f, SzSub(SzAdd(offset, rdlength), f.p.rindex), FALSE) :
           f \in {ReadSteps(p, << <<"u16">>, <<"u8">>, <<"u8">>, <<"u32">>, <<"u32">>,
                                  <<"u32">>, <<"u16">>, <<"name", FALSE>> >>, <<>>)} })

\* The end of the NSEC and NSEC3 cases: the type bitmaps fill the rest
ReadTypesLast(q, rdlength, offset, vals) ==
    Only({ Rdata(w.p, w.r, FALSE, w.hang, FALSE, Append(vals, w.types)) :
           w \in {dns_packet_read_type_windows(
                      q, SzSub(SzAdd(offset, rdlength), q.rindex))} })

\* The NSEC case
ReadNsec(p, rdlength, offset) ==
    Only({ IF n.hang \/ n.r < 0 THEN Rdata(n.p, n.r, FALSE, n.hang, FALSE, <<>>)
           ELSE ReadTypesLast(n.p, rdlength, offset, <<n.name>>) :
           n \in {dns_packet_read_name(p, p.protocol = "mdns")} })

\* The NSEC3 case from the second size byte on (q: the packet after the salt)
ReadNsec3Next(q, rdlength, offset, vals) ==
    Only({ IF size.r < 0 THEN Rdata(size.p, size.r, FALSE, FALSE, FALSE, vals)
           ELSE IF size.v <= 0 THEN Rdata(size.p, -EBADMSG, FALSE, FALSE, FALSE, vals)
           ELSE Only({ IF next.r < 0 THEN Rdata(next.p, next.r, FALSE, FALSE, FALSE, vals)
                       ELSE ReadTypesLast(next.p, rdlength, offset, vals) :
                       next \in {dns_packet_read_memdup(size.p, size.v)} }) :
           size \in {dns_packet_read_uint8(q)} })

\* The NSEC3 case
ReadNsec3(p, rdlength, offset) ==
    Only({ IF f.r < 0 THEN Rdata(f.p, f.r, FALSE, FALSE, FALSE, f.vals)
           ELSE Only({ IF salt.r < 0
                       THEN Rdata(salt.p, salt.r, FALSE, FALSE, FALSE, f.vals)
                       ELSE ReadNsec3Next(salt.p, rdlength, offset, f.vals) :
                       salt \in {dns_packet_read_memdup(f.p, f.vals[4])} }) :
           f \in {ReadSteps(p, << <<"u8">>, <<"u8">>, <<"u16">>, <<"u8">> >>, <<>>)} })

\* The switch on the record's type
ReadRdata(p, type, rdlength, offset) ==
    CASE type = DNS_TYPE_SRV ->
           ReadPlain(p, << <<"u16">>, <<"u16">>, <<"u16">>, <<"name", TRUE>> >>)
      [] type \in {DNS_TYPE_PTR, DNS_TYPE_NS, DNS_TYPE_CNAME, DNS_TYPE_DNAME} ->
           ReadPlain(p, << <<"name", TRUE>> >>)
      [] type = DNS_TYPE_HINFO ->
           ReadPlain(p, << <<"string">>, <<"string">> >>)
      [] type \in {DNS_TYPE_SPF, DNS_TYPE_TXT} -> ReadTxt(p, rdlength, offset)
      [] type = DNS_TYPE_A -> ReadPlain(p, << <<"blob", 4>> >>)
      [] type = DNS_TYPE_AAAA -> ReadPlain(p, << <<"blob", 16>> >>)
      [] type = DNS_TYPE_SOA ->
           ReadPlain(p, << <<"name", TRUE>>, <<"name", TRUE>>, <<"u32">>, <<"u32">>,
                           <<"u32">>, <<"u32">>, <<"u32">> >>)
      [] type = DNS_TYPE_MX ->
           ReadPlain(p, << <<"u16">>, <<"name", TRUE>> >>)
      [] type = DNS_TYPE_LOC -> ReadLoc(p, rdlength)
      [] type = DNS_TYPE_DS ->
           ReadThenMemdup(p, << <<"u16">>, <<"u8">>, <<"u8">> >>, 4, rdlength, TRUE)
      [] type = DNS_TYPE_SSHFP ->
           ReadThenMemdup(p, << <<"u8">>, <<"u8">> >>, 2, rdlength, FALSE)
      [] type = DNS_TYPE_DNSKEY ->
           ReadThenMemdup(p, << <<"u16">>, <<"u8">>, <<"u8">> >>, 4, rdlength, FALSE)
      [] type = DNS_TYPE_RRSIG -> ReadRrsig(p, rdlength, offset)
      [] type = DNS_TYPE_NSEC -> ReadNsec(p, rdlength, offset)
      [] type = DNS_TYPE_NSEC3 -> ReadNsec3(p, rdlength, offset)
      [] OTHER -> ReadGeneric(p, rdlength, FALSE)

NoRr == [key |-> NoKey, ttl |-> <<0, 0>>, unparseable |-> FALSE, rdata |-> <<>>]

\* dns_packet_read_rr left without a record: by "goto fail" (q rewound by
\* the caller), by "return r", or not at all (hang)
ReadRrOut(q, r, hang) ==
    [p |-> q, r |-> r, start |-> 0, rr |-> NoRr, cache_flush |-> FALSE, hang |-> hang]

\* No test of the bytes the decoder of the rdata consumed
RdataLengthMismatch_never(rindex, offset, rdlength) == FALSE

\* "if (p->rindex != offset + rdlength)" after the switch
RdataLengthMismatch(rindex, offset, rdlength) == rindex # SzAdd(offset, rdlength)

\* dns_packet_read_rr from the switch on (q: the packet after RDLENGTH)
ReadRrBody(q, saved_rindex, key, ttl, rdlength) ==
    Only({ IF d.hang THEN ReadRrOut(d.p, 0, TRUE)
           ELSE IF d.returned THEN ReadRrOut(d.p, d.r, FALSE)
           ELSE IF d.r < 0 THEN ReadRrOut(dns_packet_rewind(d.p, saved_rindex), d.r, FALSE)
           ELSE IF RdataLengthMismatch(d.p.rindex, q.rindex, rdlength)
           THEN ReadRrOut(dns_packet_rewind(d.p, saved_rindex), -EBADMSG, FALSE)
           ELSE [p |-> d.p, r |-> 0, start |-> saved_rindex,
                 rr |-> [key |-> key.key, ttl |-> ttl, unparseable |-> d.unparseable,
                         rdata |-> d.rdata],
                 cache_flush |-> key.cache_flush, hang |-> FALSE] :
           d \in {ReadRdata(q, key.key.type, rdlength, q.rindex)} })

\* dns_packet_read_rr after the key: dns_resource_record_new, TTL, RDLENGTH
ReadRrHead(q, saved_rindex, key) ==
    IF AllocFails(q) THEN ReadRrOut(dns_packet_rewind(Allocated(q), saved_rindex), -ENOMEM, FALSE)
    ELSE
    Only({ IF f.r < 0 THEN ReadRrOut(dns_packet_rewind(f.p, saved_rindex), f.r, FALSE)
           ELSE IF SzAdd(f.p.rindex, f.vals[2]) > f.p.size
           THEN ReadRrOut(dns_packet_rewind(f.p, saved_rindex), -EBADMSG, FALSE)
           ELSE ReadRrBody(f.p, saved_rindex, key, f.vals[1], f.vals[2]) :
           f \in {ReadSteps(Allocated(q), << <<"u32">>, <<"u16">> >>, <<>>)} })

\* Result: the packet, r, start, the record rr, cache_flush, hang
dns_packet_read_rr(p) ==
    Only({ IF key.hang THEN ReadRrOut(key.p, 0, TRUE)
           ELSE IF key.r < 0 THEN ReadRrOut(dns_packet_rewind(key.p, p.rindex), key.r, FALSE)
           ELSE IF ~dns_class_is_valid_rr(key.key.class)
                   \/ ~dns_type_is_valid_rr(key.key.type)
           THEN ReadRrOut(dns_packet_rewind(key.p, p.rindex), -EBADMSG, FALSE)
           ELSE ReadRrHead(key.p, p.rindex, key) :
           key \in {dns_packet_read_key(p)} })

(***************************************************************************)
(* dns_packet_extract                                                      *)
(***************************************************************************)
\* The counts of the header
DNS_PACKET_QDCOUNT(p) == BeAt(p, 4, 2)

DNS_PACKET_ANCOUNT(p) == BeAt(p, 6, 2)

DNS_PACKET_NSCOUNT(p) == BeAt(p, 8, 2)

DNS_PACKET_ARCOUNT(p) == BeAt(p, 10, 2)

DNS_PACKET_RRCOUNT(p) ==
    DNS_PACKET_ANCOUNT(p) + DNS_PACKET_NSCOUNT(p) + DNS_PACKET_ARCOUNT(p)

\* dns_type_is_valid_query (dns-type.c): not 0, OPT, TSIG or TKEY
dns_type_is_valid_query(type) == type \notin {0, DNS_TYPE_OPT, 250, 249}

\* dns_question_add (resolved-dns-question.c): a key the question holds
\* already is not added again
dns_question_add(question, key) ==
    IF \E i \in 1..Len(question) : question[i] = key THEN question
    ELSE Append(question, key)

\* dns_answer_add (resolved-dns-answer.c): a record the answer holds already
\* only gains the flags
dns_answer_add(answer, rr, flags) ==
    IF \E i \in 1..Len(answer) : answer[i].rr = rr
    THEN [i \in 1..Len(answer) |->
             IF answer[i].rr = rr
             THEN [answer[i] EXCEPT !.flags = @ \cup flags]
             ELSE answer[i]]
    ELSE Append(answer, [rr |-> rr, flags |-> flags])

\* What a loop of dns_packet_extract yields: the packet, r, the list, hang
Extracted(q, r, list, hang) == [p |-> q, r |-> r, list |-> list, hang |-> hang]

RECURSIVE ExtractQuestion(_, _, _, _)
\* The loop over the question section
ExtractQuestion(p, n, i, question) ==
    IF i >= n THEN Extracted(p, 0, question, FALSE)
    ELSE Only({ IF key.hang THEN Extracted(key.p, 0, question, TRUE)
                ELSE IF key.r < 0 THEN Extracted(key.p, key.r, question, FALSE)
                ELSE IF key.cache_flush \/ ~dns_type_is_valid_query(key.key.type)
                THEN Extracted(key.p, -EBADMSG, question, FALSE)
                ELSE ExtractQuestion(key.p, n, i + 1, dns_question_add(question, key.key)) :
                key \in {dns_packet_read_key(p)} })

\* Every record flagged as one of the answer section
AnswerFlags_cacheable(p, i, cache_flush) ==
    {"DNS_ANSWER_CACHEABLE"}
    \cup (IF p.protocol = "mdns" /\ ~cache_flush THEN {"DNS_ANSWER_SHARED_OWNER"} ELSE {})

\* The flags a record is added to the answer with
AnswerFlags(p, i, cache_flush) ==
    (IF i < DNS_PACKET_ANCOUNT(p) THEN {"DNS_ANSWER_CACHEABLE"} ELSE {})
    \cup (IF p.protocol = "mdns" /\ ~cache_flush THEN {"DNS_ANSWER_SHARED_OWNER"} ELSE {})

\* An OPT record tested for its owner only
OptMisplaced_owner(p, rr, i) == rr.key.name # <<>>

\* The three tests of an OPT record: its owner is not the root, it is not
\* in the additional section, the packet has an OPT record already
OptMisplaced(p, rr, i) ==
    \/ rr.key.name # <<>>
    \/ i < DNS_PACKET_ANCOUNT(p) + DNS_PACKET_NSCOUNT(p)
    \/ p.opt # <<>>

RECURSIVE ExtractAnswer(_, _, _, _)
\* The loop over the answer, authority and additional sections
ExtractAnswer(p, n, i, answer) ==
    IF i >= n THEN Extracted(p, 0, answer, FALSE)
    ELSE
    Only({
      IF e.hang THEN Extracted(e.p, 0, answer, TRUE)
      ELSE IF e.r < 0 THEN Extracted(e.p, e.r, answer, FALSE)
      ELSE IF e.rr.key.type = DNS_TYPE_OPT
      THEN IF OptMisplaced(e.p, e.rr, i)
           THEN Extracted(e.p, -EBADMSG, answer, FALSE)
           ELSE ExtractAnswer([e.p EXCEPT !.opt = <<e.rr>>], n, i + 1, answer)
      ELSE ExtractAnswer(e.p, n, i + 1,
                         dns_answer_add(answer, e.rr, AnswerFlags(e.p, i, e.cache_flush))) :
      e \in {dns_packet_read_rr(p)} })

\* dns_packet_extract left at "finish:" with r (q: the packet then)
ExtractFinish(q, saved_rindex, r, hang) ==
    [p |-> [q EXCEPT !.rindex = saved_rindex], r |-> r, hang |-> hang]

\* dns_packet_extract after the question section (question: what was read)
ExtractRest(q, saved_rindex, question) ==
    IF DNS_PACKET_RRCOUNT(q) > 0 /\ AllocFails(q)
    THEN \* dns_answer_new
         ExtractFinish(Allocated(q), saved_rindex, -ENOMEM, FALSE)
    ELSE
    Only({ IF a.hang THEN [p |-> a.p, r |-> 0, hang |-> TRUE]
           ELSE IF a.r < 0 THEN ExtractFinish(a.p, saved_rindex, a.r, FALSE)
           ELSE ExtractFinish([a.p EXCEPT !.question = question,
                                          !.answer = a.list,
                                          !.extracted = TRUE],
                              saved_rindex, 0, FALSE) :
           a \in {ExtractAnswer(IF DNS_PACKET_RRCOUNT(q) > 0 THEN Allocated(q) ELSE q,
                                DNS_PACKET_RRCOUNT(q), 0, <<>>)} })

\* dns_packet_extract from "saved_rindex = p->rindex" on, as it would run
\* without the test of p->extracted
dns_packet_extract_anew(p) ==
    IF DNS_PACKET_QDCOUNT(p) > 0 /\ AllocFails(p)
    THEN \* dns_question_new
         ExtractFinish(Allocated(p), p.rindex, -ENOMEM, FALSE)
    ELSE
    Only({ IF q.hang THEN [p |-> q.p, r |-> 0, hang |-> TRUE]
           ELSE IF q.r < 0 THEN ExtractFinish(q.p, p.rindex, q.r, FALSE)
           ELSE ExtractRest(q.p, p.rindex, q.list) :
           q \in {ExtractQuestion(
                      dns_packet_rewind(IF DNS_PACKET_QDCOUNT(p) > 0 THEN Allocated(p) ELSE p,
                                        DNS_PACKET_HEADER_SIZE),
                      DNS_PACKET_QDCOUNT(p), 0, <<>>)} })

\* Result: the packet, r, hang
dns_packet_extract(p) ==
    IF p.extracted THEN [p |-> p, r |-> 0, hang |-> FALSE]
    ELSE dns_packet_extract_anew(p)

(***************************************************************************)
(* dns_packet_validate, dns_packet_validate_reply, dns_packet_validate_query *)
(***************************************************************************)
\* The flags of the header (RFC 1035): QR, OPCODE (4 bits), AA, TC, RD, RA,
\* Z, AD, CD, RCODE (4 bits), from the highest bit down
DNS_PACKET_FLAGS(p) == BeAt(p, 2, 2)

DNS_PACKET_QR(p) == (DNS_PACKET_FLAGS(p) \div 32768) % 2

DNS_PACKET_OPCODE(p) == (DNS_PACKET_FLAGS(p) \div 2048) % 16

DNS_PACKET_AA(p) == (DNS_PACKET_FLAGS(p) \div 1024) % 2

DNS_PACKET_TC(p) == (DNS_PACKET_FLAGS(p) \div 512) % 2

DNS_PACKET_RD(p) == (DNS_PACKET_FLAGS(p) \div 256) % 2

DNS_PACKET_RA(p) == (DNS_PACKET_FLAGS(p) \div 128) % 2

DNS_PACKET_AD(p) == (DNS_PACKET_FLAGS(p) \div 32) % 2

DNS_PACKET_CD(p) == (DNS_PACKET_FLAGS(p) \div 16) % 2

DNS_PACKET_RCODE(p) == DNS_PACKET_FLAGS(p) % 16

dns_packet_validate(p) ==
    IF p.size < DNS_PACKET_HEADER_SIZE THEN -EBADMSG
    ELSE IF p.size > DNS_PACKET_SIZE_MAX THEN -EBADMSG
    ELSE 1

\* dns_packet_validate_reply without the switch on the protocol
dns_packet_validate_reply_any(p) ==
    IF dns_packet_validate(p) < 0 THEN dns_packet_validate(p)
    ELSE IF DNS_PACKET_QR(p) # 1 THEN 0
    ELSE IF DNS_PACKET_OPCODE(p) # 0 THEN -EBADMSG
    ELSE 1

dns_packet_validate_reply(p) ==
    IF dns_packet_validate(p) < 0 THEN dns_packet_validate(p)
    ELSE IF DNS_PACKET_QR(p) # 1 THEN 0
    ELSE IF DNS_PACKET_OPCODE(p) # 0 THEN -EBADMSG
    ELSE IF p.protocol = "llmnr" /\ DNS_PACKET_QDCOUNT(p) # 1 THEN -EBADMSG
    ELSE IF p.protocol = "mdns" /\ DNS_PACKET_RCODE(p) # 0 THEN -EBADMSG
    ELSE 1

\* dns_packet_validate_query without the switch on the protocol
dns_packet_validate_query_any(p) ==
    IF dns_packet_validate(p) < 0 THEN dns_packet_validate(p)
    ELSE IF DNS_PACKET_QR(p) # 0 THEN 0
    ELSE IF DNS_PACKET_OPCODE(p) # 0 THEN -EBADMSG
    ELSE IF DNS_PACKET_TC(p) # 0 THEN -EBADMSG
    ELSE 1

dns_packet_validate_query(p) ==
    IF dns_packet_validate(p) < 0 THEN dns_packet_validate(p)
    ELSE IF DNS_PACKET_QR(p) # 0 THEN 0
    ELSE IF DNS_PACKET_OPCODE(p) # 0 THEN -EBADMSG
    ELSE IF DNS_PACKET_TC(p) # 0 THEN -EBADMSG
    ELSE IF p.protocol = "llmnr" /\ DNS_PACKET_QDCOUNT(p) # 1 THEN -EBADMSG
    ELSE IF p.protocol = "llmnr" /\ DNS_PACKET_ANCOUNT(p) > 0 THEN -EBADMSG
    ELSE IF p.protocol = "llmnr" /\ DNS_PACKET_NSCOUNT(p) > 0 THEN -EBADMSG
    ELSE IF p.protocol = "mdns"
            /\ (DNS_PACKET_AA(p) # 0 \/ DNS_PACKET_RD(p) # 0 \/ DNS_PACKET_RA(p) # 0
                \/ DNS_PACKET_AD(p) # 0 \/ DNS_PACKET_CD(p) # 0 \/ DNS_PACKET_RCODE(p) # 0)
    THEN -EBADMSG
    ELSE 1

(***************************************************************************)
(* dns_packet_ref, dns_packet_free, dns_packet_unref                       *)
(***************************************************************************)
\* h: the packets P and M with their reference counts n_ref (0: the packet
\* is freed), the field more of P (M has none), the references held by the
\* users of each packet besides the one P.more is, the calls of
\* dns_packet_unref made for P.more so far, and uaf: freed memory was used.
dns_packet_ref(h, x) ==
    IF h.n_ref[x] = 0 THEN [h EXCEPT !.uaf = TRUE]
    ELSE [h EXCEPT !.n_ref[x] = @ + 1]

dns_packet_free(h, x) == [h EXCEPT !.n_ref[x] = 0]

\* dns_packet_unref of a packet without continuation
UnrefLast(h, x) ==
    IF x = "NULL" THEN h
    ELSE IF h.n_ref[x] = 0 THEN [h EXCEPT !.uaf = TRUE]
    ELSE IF h.n_ref[x] = 1 THEN dns_packet_free(h, x)
    ELSE [h EXCEPT !.n_ref[x] = @ - 1]

\* dns_packet_unref(x): dns_packet_unref(x->more) first, then the count of x
dns_packet_unref(h, x) ==
    IF x = "NULL" THEN h
    ELSE IF h.n_ref[x] = 0 THEN [h EXCEPT !.uaf = TRUE]
    ELSE IF x = "P" /\ h.more # "NULL"
    THEN Only({ IF g.uaf THEN g
                ELSE IF g.n_ref[x] = 1 THEN dns_packet_free(g, x)
                ELSE [g EXCEPT !.n_ref[x] = @ - 1] :
                g \in {UnrefLast([h EXCEPT !.unrefs = @ + 1], h.more)} })
    ELSE UnrefLast(h, x)

(***************************************************************************)
(* The state: one packet and the outcome of the last call on it.           *)
(***************************************************************************)
VARIABLES
    pkt,         \* the DnsPacket
    op,          \* the function called last ("new" when none was)
    ret,         \* what it returned
    out,         \* what it yielded besides (start, the value read, ...)
    pre_size,    \* pkt.size when it was called
    pre_rindex,  \* pkt.rindex when it was called
    hung,        \* the call did not return
    nops,        \* calls made so far
    heap         \* the reference counts of the packet P and of its continuation M

vars == <<pkt, op, ret, out, pre_size, pre_rindex, hung, nops, heap>>

\* The packet as the call finds it, with the allocation that fails (o)
With(o) == [pkt EXCEPT !.oom = o]

\* The call named name ended with the result e
Finish(name, e) ==
    /\ pkt' = [e.p EXCEPT !.oom = 0]
    /\ op' = name
    /\ ret' = e.r
    /\ out' = [f \in DOMAIN e \ {"p", "r", "hang"} |-> e[f]]
    /\ pre_size' = pkt.size
    /\ pre_rindex' = pkt.rindex
    /\ hung' = IF "hang" \in DOMAIN e THEN e.hang ELSE FALSE
    /\ UNCHANGED heap

(***************************************************************************)
(* Inputs of the calls.                                                    *)
(***************************************************************************)
Protocols == {"dns", "mdns", "llmnr"}

\* mtu arguments: below the UDP header, just above it, an Ethernet frame, a
\* jumbo datagram, and two for which the page rounding wraps around
Mtus == {0, 29, 1500, 65563, SIZE_T_MOD - 100, SIZE_T_MOD - 1}

\* The allocation of the call that fails: none, the first, the second
OomPoints == {0, 1, 2}

\* Labels "a", "b" and "A"
La == <<97>>

Lb == <<98>>

LA == <<65>>

Names == {<<La>>, <<Lb, La>>, <<LA>>}

\* Blob lengths: a few bytes, up to offset 0x4000, and up to two bytes below
\* DNS_PACKET_SIZE_MAX on a fresh packet
BlobLens == {3, 16384 - DNS_PACKET_HEADER_SIZE,
             DNS_PACKET_SIZE_MAX - DNS_PACKET_HEADER_SIZE - 2}

Strings == {<<97>>, Fill(256, 97)}

Labels == {LA, Fill(64, 97)}

Keys == {[name |-> <<Lb, La>>, type |-> DNS_TYPE_A, class |-> 1]}

RootKey(t) == [name |-> <<>>, type |-> t, class |-> 1]

\* Records to append: an address, a pointer to a name, a text of two strings
\* and opaque data of 4 and of 65536 bytes
Records ==
    {[key |-> [name |-> <<La>>, type |-> DNS_TYPE_A, class |-> 1], ttl |-> <<0, 60>>,
      unparseable |-> FALSE, a |-> [in_addr |-> 127]],
     [key |-> [name |-> <<La>>, type |-> DNS_TYPE_PTR, class |-> 1], ttl |-> <<0, 60>>,
      unparseable |-> FALSE, ptr |-> [name |-> <<Lb, La>>]],
     [key |-> RootKey(DNS_TYPE_TXT), ttl |-> <<0, 0>>,
      unparseable |-> FALSE, txt |-> [items |-> << <<97>>, <<98, 99>> >>]],
     [key |-> RootKey(DNS_TYPE_LOC), ttl |-> <<0, 0>>,
      unparseable |-> TRUE, generic |-> [data |-> 1, size |-> 4]],
     [key |-> RootKey(4096), ttl |-> <<0, 0>>,
      unparseable |-> FALSE, generic |-> [data |-> 0, size |-> 65536]]}

TruncateSizes == {DNS_PACKET_HEADER_SIZE, 16384}

ReadSizes == {1, 4}

(***************************************************************************)
(* The calls.                                                              *)
(***************************************************************************)
AppendUint8 ==
    \E o \in OomPoints : Finish("append_uint8", dns_packet_append_uint8(With(o), 1))

AppendUint16 ==
    \E o \in OomPoints : Finish("append_uint16", dns_packet_append_uint16(With(o), 258))

AppendUint32 ==
    \E o \in OomPoints : Finish("append_uint32", dns_packet_append_uint32(With(o), <<258, 772>>))

AppendBlob ==
    \E o \in OomPoints, l \in BlobLens :
        Finish("append_blob", dns_packet_append_blob(With(o), 0, l))

AppendRawString ==
    \E o \in OomPoints, s \in Strings :
        Finish("append_raw_string", dns_packet_append_raw_string(With(o), s))

AppendString ==
    \E o \in OomPoints, s \in Strings :
        Finish("append_string", dns_packet_append_string(With(o), s))

AppendLabel ==
    \E o \in OomPoints, d \in Labels, c \in BOOLEAN :
        Finish("append_label", dns_packet_append_label(With(o), d, c))

AppendName ==
    \E o \in OomPoints, n \in Names, a \in BOOLEAN, c \in BOOLEAN :
        Finish("append_name", dns_packet_append_name(With(o), n, a, c))

AppendKey ==
    \E o \in OomPoints, k \in Keys :
        Finish("append_key", dns_packet_append_key(With(o), k))

AppendOptRr ==
    \E o \in OomPoints, do \in BOOLEAN :
        Finish("append_opt_rr", dns_packet_append_opt_rr(With(o), 512, do))

AppendRr ==
    \E o \in OomPoints, rr \in Records :
        Finish("append_rr", dns_packet_append_rr(With(o), rr))

\* dns_packet_truncate to a size that leaves the header
Truncate ==
    \E sz \in TruncateSizes \cup {pre_size} :
        Finish("truncate", [p |-> dns_packet_truncate(pkt, sz), r |-> 0])

Read ==
    \E sz \in ReadSizes : Finish("read", dns_packet_read(pkt, sz))

ReadBlob ==
    \E sz \in ReadSizes : Finish("read_blob", dns_packet_read_blob(pkt, sz))

ReadUint8 == Finish("read_uint8", dns_packet_read_uint8(pkt))

ReadUint16 == Finish("read_uint16", dns_packet_read_uint16(pkt))

ReadUint32 == Finish("read_uint32", dns_packet_read_uint32(pkt))

ReadString ==
    \E o \in OomPoints : Finish("read_string", dns_packet_read_string(With(o)))

ReadRawString == Finish("read_raw_string", dns_packet_read_raw_string(pkt))

ReadName ==
    \E o \in OomPoints, a \in BOOLEAN :
        Finish("read_name",
               [allow_compression |-> a, oom |-> o] @@ dns_packet_read_name(With(o), a))

ReadKey ==
    \E o \in OomPoints : Finish("read_key", dns_packet_read_key(With(o)))

ReadRr ==
    \E o \in OomPoints : Finish("read_rr", [oom |-> o] @@ dns_packet_read_rr(With(o)))

\* dns_packet_rewind asserts DNS_PACKET_HEADER_SIZE <= idx <= size
Rewind ==
    \E idx \in DNS_PACKET_HEADER_SIZE .. Min(pkt.size, DNS_PACKET_HEADER_SIZE + MaxBodyLen + 1) :
        Finish("rewind", [p |-> dns_packet_rewind(pkt, idx), r |-> 0])

\* again: the packet was extracted before the call
Extract ==
    \E o \in OomPoints :
        Finish("extract",
               [again |-> pkt.extracted, oom |-> o] @@ dns_packet_extract(With(o)))

Appends == {"append_uint8", "append_uint16", "append_uint32", "append_blob",
            "append_raw_string", "append_string", "append_label", "append_name",
            "append_key", "append_opt_rr", "append_rr"}

Reads == {"read", "read_blob", "read_uint8", "read_uint16", "read_uint32",
          "read_string", "read_raw_string", "read_name", "read_key", "read_rr"}

(***************************************************************************)
(* The send path: a packet made by dns_packet_new, appended to and read.   *)
(***************************************************************************)
\* One packet, referenced once, without continuation
NoChain == [n_ref |-> [P |-> 1, M |-> 0], held |-> [P |-> 1, M |-> 0],
            more |-> "NULL", unrefs |-> 0, uaf |-> FALSE]

Idle ==
    /\ op = "new"
    /\ ret = 0
    /\ out = <<>>
    /\ pre_size = pkt.size
    /\ pre_rindex = pkt.rindex
    /\ hung = FALSE
    /\ nops = 0

Init ==
    /\ \E proto \in Protocols, mtu \in Mtus : pkt = dns_packet_new(proto, mtu)
    /\ heap = NoChain
    /\ Idle

\* A call on a packet that is being built: at most MaxOps of them
Counted(A) == ~hung /\ nops < MaxOps /\ nops' = nops + 1 /\ A

Next ==
    \/ Counted(AppendUint8)
    \/ Counted(AppendUint16)
    \/ Counted(AppendUint32)
    \/ Counted(AppendBlob)
    \/ Counted(AppendRawString)
    \/ Counted(AppendString)
    \/ Counted(AppendLabel)
    \/ Counted(AppendName)
    \/ Counted(AppendKey)
    \/ Counted(AppendOptRr)
    \/ Counted(AppendRr)
    \/ Counted(Truncate)
    \/ Counted(Read)
    \/ Counted(ReadBlob)
    \/ Counted(ReadUint8)
    \/ Counted(ReadUint16)
    \/ Counted(ReadUint32)
    \/ Counted(ReadString)
    \/ Counted(ReadRawString)
    \/ Counted(ReadName)
    \/ Counted(ReadKey)
    \/ Counted(ReadRr)
    \/ Counted(Rewind)
    \/ Counted(Extract)

Spec == Init /\ [][Next]_vars

(***************************************************************************)
(* The receive path: a buffer taken from the network and parsed.           *)
(***************************************************************************)
\* The bytes the enumerated buffers are made of: the end of a name, the
\* length of a label of one byte, one of 12 bytes (and the offset of the
\* first byte after the header), a length that is none (0x40), and the first
\* byte of a pointer (0xC0)
RxAlphabet == {0, 1, 12, 64, 192}

Header(qd, an, ns, ar) == <<0, 0, 0, 0>> \o Be16(qd) \o Be16(an) \o Be16(ns) \o Be16(ar)

\* Messages of a zero header and up to MaxBodyLen bytes of RxAlphabet
NameMessages ==
    {Header(0, 0, 0, 0) \o b : b \in UNION {[1..n -> RxAlphabet] : n \in 1..MaxBodyLen}}

\* A record on the wire
Rr(owner, type, class, rdata) ==
    owner \o Be16(type) \o Be16(class) \o <<0, 0, 0, 60>> \o Be16(Len(rdata)) \o rdata

\* Messages of one record in the answer section
AnswerMessages ==
    {Header(0, 1, 0, 0) \o b : b \in
       {Rr(<<0>>, DNS_TYPE_A, 1, <<127, 0, 0, 1>>),
        Rr(<<0>>, DNS_TYPE_A, 32769, <<127, 0, 0, 1>>),
        Rr(<<0>>, DNS_TYPE_A, 255, <<127, 0, 0, 1>>),
        Rr(<<0>>, DNS_TYPE_A, 1, <<127, 0, 0>>),
        Rr(<<1, 97, 0>>, DNS_TYPE_PTR, 1, <<1, 98, 192, 12>>),
        Rr(<<0>>, DNS_TYPE_TXT, 1, <<>>),
        Rr(<<0>>, DNS_TYPE_TXT, 1, <<1, 97, 2, 98, 99>>),
        \* the second string runs beyond the end of the message
        Rr(<<0>>, DNS_TYPE_TXT, 1, <<1, 97, 5>>),
        Rr(<<0>>, DNS_TYPE_SPF, 1, <<1, 97, 5>>),
        Rr(<<0>>, DNS_TYPE_HINFO, 1, <<1, 97, 1, 0>>),
        Rr(<<0>>, DNS_TYPE_MX, 1, <<0, 10, 1, 97, 0>>),
        Rr(<<0>>, DNS_TYPE_LOC, 1, <<0, 18, 18, 18, 0, 0, 0, 1, 0, 0, 0, 2, 0, 0, 0, 3>>),
        Rr(<<0>>, DNS_TYPE_LOC, 1, <<0, 18, 10, 18, 0, 0, 0, 1, 0, 0, 0, 2, 0, 0, 0, 3>>),
        Rr(<<0>>, DNS_TYPE_LOC, 1, <<1, 2, 3>>),
        Rr(<<0>>, DNS_TYPE_DS, 1, <<0, 1, 8, 2, 171>>),
        Rr(<<0>>, DNS_TYPE_DS, 1, <<0, 1, 8, 2>>),
        Rr(<<0>>, DNS_TYPE_SSHFP, 1, <<1, 1, 171>>),
        Rr(<<0>>, DNS_TYPE_SSHFP, 1, <<1>>),
        Rr(<<0>>, DNS_TYPE_NSEC, 1, <<0, 0, 1, 64>>),
        Rr(<<0>>, DNS_TYPE_NSEC, 1, <<0, 0, 1, 0>>),
        Rr(<<0>>, DNS_TYPE_NSEC, 1, <<0>>),
        Rr(<<0>>, DNS_TYPE_OPT, 512, <<>>),
        Rr(<<0>>, 4096, 1, <<1, 2>>)}}

\* Messages of one question, of one OPT record in the additional section,
\* of a name that jumps twice, of a name that jumps to a pointer to itself,
\* and of names of one label and then a pointer to their start, a pointer
\* beyond it, a length that is none
OtherMessages ==
    {Header(1, 0, 0, 0) \o <<1, 97, 0>> \o Be16(DNS_TYPE_A) \o Be16(1),
     Header(1, 0, 0, 0) \o <<192, 12>> \o Be16(DNS_TYPE_A) \o Be16(1),
     Header(1, 0, 0, 0) \o <<0>> \o Be16(DNS_TYPE_OPT) \o Be16(1),
     Header(0, 0, 0, 1) \o Rr(<<0>>, DNS_TYPE_OPT, 512, <<>>),
     Header(0, 0, 0, 0) \o <<0, 192, 12, 192, 13>>,
     Header(0, 0, 0, 0) \o <<192, 12, 192, 12>>,
     Header(0, 0, 0, 0) \o <<1, 97, 192, 12>>,
     Header(0, 0, 0, 0) \o <<1, 97, 192, 64>>,
     Header(0, 0, 0, 0) \o <<1, 97, 64, 0>>}

\* The packet a received buffer is put in: dns_packet_new with the buffer's
\* length, the bytes copied in, size set (manager_recv, resolved-manager.c)
Received(protocol, bytes) ==
    [dns_packet_new(protocol, Len(bytes)) EXCEPT !.size = Len(bytes),
                                                 !.data = PutBytes(EmptyMap, 0, bytes)]

InitRx ==
    /\ \/ \E bytes \in NameMessages, rc \in BOOLEAN :
              pkt = [Received("dns", bytes) EXCEPT !.refuse_compression = rc]
       \/ \E proto \in Protocols, bytes \in AnswerMessages \cup OtherMessages :
              pkt = Received(proto, bytes)
    /\ heap = NoChain
    /\ Idle

\* A call on a received packet
Parsing(A) == ~hung /\ A /\ UNCHANGED nops

NextRx ==
    \/ Parsing(Read)
    \/ Parsing(ReadBlob)
    \/ Parsing(ReadUint8)
    \/ Parsing(ReadUint16)
    \/ Parsing(ReadUint32)
    \/ Parsing(ReadString)
    \/ Parsing(ReadRawString)
    \/ Parsing(ReadName)
    \/ Parsing(ReadKey)
    \/ Parsing(ReadRr)
    \/ Parsing(Rewind)
    \/ Parsing(Extract)

SpecRx == InitRx /\ [][NextRx]_vars

\* The name decoder alone, started at every offset dns_packet_rewind reaches
NextName ==
    \/ Parsing(ReadName)
    \/ Parsing(Rewind)

SpecName == InitRx /\ [][NextName]_vars

\* Sizes asked of dns_packet_read: none, a few bytes, and the values
\* (size_t) (rdlength - 4) takes for an RDLENGTH of 0 and of 3
WideSizes == {0, 1, 4, SIZE_T_MOD - 4, SIZE_T_MOD - 1}

\* dns_packet_read with any size_t, the size kept for the record
ReadWide ==
    \E sz \in WideSizes : Finish("read", [sz |-> sz] @@ dns_packet_read(pkt, sz))

\* dns_packet_read alone, started at every offset dns_packet_rewind reaches
NextRead ==
    \/ Parsing(ReadWide)
    \/ Parsing(Rewind)

SpecRead == InitRx /\ [][NextRead]_vars

(***************************************************************************)
(* Received messages of several records, parsed record by record and as a  *)
(* whole.                                                                  *)
(***************************************************************************)
\* An entry of the question section on the wire
Qe(owner, type, class) == owner \o Be16(type) \o Be16(class)

\* An OPT record on the wire: root owner, class 512 (the UDP payload size)
OptRr == Rr(<<0>>, DNS_TYPE_OPT, 512, <<>>)

\* An address record of the root on the wire
ARr(class, last) == Rr(<<0>>, DNS_TYPE_A, class, <<10, 0, 0, last>>)

\* Messages whose sections hold several records: a reply with a question,
\* an answer and an OPT; one record in each section, the last with the
\* cache-flush bit; the same record in two sections; an OPT with an owner
\* that is not the root; two OPTs; an OPT and then a record that is cut
\* short; an OPT before the additional section; an OPT and then an address;
\* a question with the cache-flush bit; an OPT with the bit 0x8000 in its
\* class; the same question twice; two questions, the second with the
\* cache-flush bit
SectionMessages ==
    {Header(1, 1, 0, 1) \o Qe(<<1, 97, 0>>, DNS_TYPE_A, 1)
                        \o Rr(<<192, 12>>, DNS_TYPE_A, 1, <<127, 0, 0, 1>>) \o OptRr,
     Header(0, 1, 1, 1) \o ARr(1, 1) \o ARr(1, 2) \o ARr(32769, 3),
     Header(0, 1, 0, 1) \o ARr(1, 1) \o ARr(1, 1),
     Header(0, 0, 0, 1) \o Rr(<<1, 97, 0>>, DNS_TYPE_OPT, 512, <<>>),
     Header(0, 0, 0, 2) \o OptRr \o OptRr,
     Header(0, 0, 0, 2) \o OptRr \o Rr(<<0>>, DNS_TYPE_A, 1, <<127, 0, 0>>),
     Header(0, 0, 1, 1) \o OptRr \o ARr(1, 1),
     Header(0, 0, 0, 2) \o OptRr \o ARr(1, 1),
     Header(1, 0, 0, 0) \o Qe(<<0>>, DNS_TYPE_A, 32769),
     Header(0, 0, 0, 1) \o Rr(<<0>>, DNS_TYPE_OPT, 33280, <<>>),
     Header(2, 0, 0, 0) \o Qe(<<0>>, DNS_TYPE_A, 1) \o Qe(<<0>>, DNS_TYPE_A, 1),
     Header(2, 0, 0, 0) \o Qe(<<0>>, DNS_TYPE_A, 1) \o Qe(<<0>>, DNS_TYPE_A, 32769)}

\* Records whose RDLENGTH is below the fixed part of their type
ShortRecords ==
    {Rr(<<0>>, DNS_TYPE_A, 1, <<127, 0, 0>>),
     Rr(<<0>>, DNS_TYPE_AAAA, 1, Fill(15, 0)),
     Rr(<<0>>, DNS_TYPE_DS, 1, <<0, 1, 8>>),
     Rr(<<0>>, DNS_TYPE_DNSKEY, 1, <<1, 0, 3>>),
     Rr(<<0>>, DNS_TYPE_SSHFP, 1, <<1>>),
     Rr(<<0>>, DNS_TYPE_SOA, 1, <<0>>),
     Rr(<<0>>, DNS_TYPE_MX, 1, <<0>>),
     Rr(<<0>>, DNS_TYPE_SRV, 1, <<0, 0, 0>>),
     Rr(<<0>>, DNS_TYPE_RRSIG, 1, <<0, 1, 8>>),
     Rr(<<0>>, DNS_TYPE_NSEC3, 1, <<1, 0, 0>>)}

\* What follows the record in the buffer: nothing, or 24 bytes
Trailers == {<<>>, Fill(24, 0)}

\* Messages of one short record in the answer section
ShortMessages ==
    {Header(0, 1, 0, 0) \o b \o t : b \in ShortRecords, t \in Trailers}

\* Messages of one address record whose RDLENGTH is one above the four
\* bytes of the address, and of one whose RDLENGTH runs beyond the buffer
LengthMessages ==
    {Header(0, 1, 0, 0) \o Rr(<<0>>, DNS_TYPE_A, 1, <<127, 0, 0, 1, 9>>),
     Header(0, 1, 0, 0) \o <<0>> \o Be16(DNS_TYPE_A) \o Be16(1) \o <<0, 0, 0, 60>>
                        \o Be16(4) \o <<127, 0>>}

RecordMessages ==
    AnswerMessages \cup OtherMessages \cup SectionMessages \cup ShortMessages
    \cup LengthMessages

InitRecords ==
    /\ \E proto \in Protocols, bytes \in RecordMessages :
          pkt = Received(proto, bytes)
    /\ heap = NoChain
    /\ Idle

NextRecords ==
    \/ Parsing(ReadKey)
    \/ Parsing(ReadRr)
    \/ Parsing(Rewind)
    \/ Parsing(Extract)

SpecRecords == InitRecords /\ [][NextRecords]_vars

(***************************************************************************)
(* dns_packet_is_reply_for                                                 *)
(***************************************************************************)
\* dns_resource_key_equal (resolved-dns-rr.c): the classes and the types are
\* the same and the names are equal whatever the case of their letters
dns_resource_key_equal(a, b) ==
    IF a.class = b.class /\ a.type = b.type /\ NameKey(a.name) = NameKey(b.name)
    THEN 1 ELSE 0

\* What reading n_keys through a p->question that is NULL can do: the call
\* does not return (the process is ended by the fault), or it goes on with
\* whatever it read and returns 0 or 1
NullReadOutcomes == {[hang |-> TRUE, r |-> 0], [hang |-> FALSE, r |-> 0],
                     [hang |-> FALSE, r |-> 1]}

\* p->question is NULL: dns_packet_extract, which calls dns_question_new
\* for QDCOUNT > 0 only, left it so
QuestionIsNull(p) == p.question = <<>>

\* ub: the outcome of the read through NULL, if there is one.  Result: the
\* packet, r, hang, null_read (p->question was NULL when n_keys was read)
dns_packet_is_reply_for(p, key, ub) ==
    IF DNS_PACKET_QR(p) # 1
    THEN [p |-> p, r |-> 0, hang |-> FALSE, null_read |-> FALSE]
    ELSE Only({ IF e.hang THEN [p |-> e.p, r |-> 0, hang |-> TRUE, null_read |-> FALSE]
                ELSE IF e.r < 0
                THEN [p |-> e.p, r |-> e.r, hang |-> FALSE, null_read |-> FALSE]
                ELSE IF QuestionIsNull(e.p)
                THEN [p |-> e.p, r |-> ub.r, hang |-> ub.hang, null_read |-> TRUE]
                ELSE IF Len(e.p.question) # 1
                THEN [p |-> e.p, r |-> 0, hang |-> FALSE, null_read |-> FALSE]
                ELSE [p |-> e.p, r |-> dns_resource_key_equal(e.p.question[1], key),
                      hang |-> FALSE, null_read |-> FALSE] :
                e \in {dns_packet_extract(p)} })

(***************************************************************************)
(* Received replies and queries, asked whether they answer a key.          *)
(***************************************************************************)
\* The message bytes with the flags of the header set to flags
Flagged(flags, bytes) == SubSeq(bytes, 1, 2) \o Be16(flags) \o SubSeq(bytes, 5, Len(bytes))

\* Queries and replies (QR set): without a question, with the question
\* a IN A, A IN A, or one that is cut short, and the messages of
\* SectionMessages
ReplyMessages ==
    {Flagged(flags, bytes) :
        flags \in {0, 32768},
        bytes \in SectionMessages
                  \cup {Header(0, 0, 0, 0),
                        Header(1, 0, 0, 0) \o Qe(<<1, 97, 0>>, DNS_TYPE_A, 1),
                        Header(1, 0, 0, 0) \o Qe(<<1, 65, 0>>, DNS_TYPE_A, 1),
                        Header(1, 0, 0, 0) \o <<1, 97, 0, 0>>}}

\* The keys asked for: a IN A, b IN A, a IN PTR and the root IN A
ReplyKeys == {[name |-> <<La>>, type |-> DNS_TYPE_A, class |-> 1],
              [name |-> <<Lb>>, type |-> DNS_TYPE_A, class |-> 1],
              [name |-> <<La>>, type |-> DNS_TYPE_PTR, class |-> 1],
              RootKey(DNS_TYPE_A)}

InitReply ==
    /\ \E proto \in Protocols, bytes \in ReplyMessages : pkt = Received(proto, bytes)
    /\ heap = NoChain
    /\ Idle

\* before: the packet was extracted before the call
IsReplyFor ==
    \E o \in OomPoints, key \in ReplyKeys, ub \in NullReadOutcomes :
        Finish("is_reply_for",
               [key |-> key, oom |-> o, before |-> pkt.extracted]
               @@ dns_packet_is_reply_for(With(o), key, ub))

NextReply == \/ Parsing(IsReplyFor) \/ Parsing(Extract)

SpecReply == InitReply /\ [][NextReply]_vars

(***************************************************************************)
(* Received headers of every kind, validated as a reply and as a query.    *)
(***************************************************************************)
\* Values of the flags: QR, an OPCODE of 0 or 5, every subset of AA, TC, RD,
\* RA, AD and CD, an RCODE of 0 or 3
FlagValues ==
    {qr * 32768 + opcode * 2048 + aa * 1024 + tc * 512 + rd * 256 + ra * 128
     + ad * 32 + cd * 16 + rcode :
     qr \in {0, 1}, opcode \in {0, 5}, aa \in {0, 1}, tc \in {0, 1}, rd \in {0, 1},
     ra \in {0, 1}, ad \in {0, 1}, cd \in {0, 1}, rcode \in {0, 3}}

\* Headers with these flags and with 0 to 2 questions, 0 or 1 answer and
\* authority record
Headers ==
    {<<0, 0>> \o Be16(flags) \o Be16(qd) \o Be16(an) \o Be16(ns) \o Be16(0) :
     flags \in FlagValues, qd \in {0, 1, 2}, an \in {0, 1}, ns \in {0, 1}}

\* Sizes around the two bounds of dns_packet_validate, which tests p->size
\* whatever the caller put there
ValidatedSizes ==
    {0, DNS_PACKET_HEADER_SIZE - 1, DNS_PACKET_HEADER_SIZE, DNS_PACKET_SIZE_MAX,
     DNS_PACKET_SIZE_MAX + 1}

\* The packet p with sz bytes
Sized(p, sz) == [p EXCEPT !.size = sz, !.allocated = Max(p.allocated, sz)]

InitValidate ==
    /\ \/ \E proto \in Protocols, bytes \in Headers : pkt = Received(proto, bytes)
       \/ \E proto \in Protocols, sz \in ValidatedSizes :
              pkt = Sized(Received(proto, Header(1, 0, 0, 0)), sz)
       \/ \E proto \in Protocols, sz \in ValidatedSizes :
              pkt = Sized(Received(proto, <<0, 0, 128, 0>>), sz)
    /\ heap = NoChain
    /\ Idle

ValidateReply == Finish("validate_reply", [p |-> pkt, r |-> dns_packet_validate_reply(pkt)])

ValidateQuery == Finish("validate_query", [p |-> pkt, r |-> dns_packet_validate_query(pkt)])

NextValidate ==
    \/ Parsing(ValidateReply)
    \/ Parsing(ValidateQuery)

SpecValidate == InitValidate /\ [][NextValidate]_vars

(***************************************************************************)
(* Names appended one after the other, before and beyond offset 0x4000.    *)
(***************************************************************************)
\* Labels "example" and "com"
Lexample == <<101, 120, 97, 109, 112, 108, 101>>

Lcom == <<99, 111, 109>>

\* a.example.com, b.example.com, A, a
HostNames == {<<La, Lexample, Lcom>>, <<Lb, Lexample, Lcom>>, <<LA>>, <<La>>}

\* A fresh packet with the two flags as the caller set them
\* The allocation of dns_packet_append_name that fails: none, or one of the
\* first four (of a name of one label: strdup, the map, its entry, the
\* buffer)
NameOomPoints == OomPoints \cup {3, 4}

InitNames ==
    /\ \E cf \in BOOLEAN, rc \in BOOLEAN :
          pkt = [dns_packet_new("dns", 0) EXCEPT !.canonical_form = cf,
                                                 !.refuse_compression = rc]
    /\ heap = NoChain
    /\ Idle

\* dns_packet_append_name, the arguments kept for the record
AppendHostName ==
    \E o \in NameOomPoints, n \in HostNames, a \in BOOLEAN, c \in BOOLEAN :
        Finish("append_name",
               [name |-> n, allow_compression |-> a, canonical_candidate |-> c, oom |-> o]
               @@ dns_packet_append_name(With(o), n, a, c))

\* dns_packet_append_blob of as many bytes as lead from the header to
\* offset 0x4000, or as leave room for two bytes in the allocated buffer
AppendPadding ==
    \E l \in {16384 - DNS_PACKET_HEADER_SIZE, pkt.allocated - pkt.size - 2} :
        l > 0 /\ Finish("append_blob", dns_packet_append_blob(pkt, 0, l))

NextNames ==
    \/ Counted(AppendHostName)
    \/ Counted(AppendPadding)

SpecNames == InitNames /\ [][NextNames]_vars

(***************************************************************************)
(* Records appended to a packet, between names and single bytes.           *)
(***************************************************************************)
NextRrs ==
    \/ Counted(AppendRr)
    \/ Counted(AppendName)
    \/ Counted(AppendUint8)

SpecRrs == Init /\ [][NextRrs]_vars

(***************************************************************************)
(* Names written to a fresh packet and read back.                          *)
(***************************************************************************)
\* The names of HostNames, the root and example.com
RoundTripNames == HostNames \cup {<<>>, <<Lexample, Lcom>>}

\* Sequences of 1 to MaxNames names
NameSeqs == UNION {[1..n -> RoundTripNames] : n \in 1..MaxNames}

RECURSIVE AppendNames(_, _, _)
\* dns_packet_append_name (compression allowed) of each of names in turn,
\* up to the first that fails; starts: the start of each
AppendNames(p, names, starts) ==
    IF names = <<>> THEN [p |-> p, r |-> 0, starts |-> starts]
    ELSE Only({ IF e.r < 0 THEN [p |-> e.p, r |-> e.r, starts |-> starts]
                ELSE AppendNames(e.p, Tail(names), Append(starts, e.start)) :
                e \in {dns_packet_append_name(p, Head(names), TRUE, FALSE)} })

RECURSIVE ReadNames(_, _, _, _)
\* dns_packet_read_name (compression allowed) n times, up to the first that
\* fails; names: what was read, ends: rindex after each
ReadNames(p, n, names, ends) ==
    IF n = 0 THEN [p |-> p, r |-> 0, hang |-> FALSE, names |-> names, ends |-> ends]
    ELSE Only({ IF e.hang \/ e.r < 0
                THEN [p |-> e.p, r |-> e.r, hang |-> e.hang, names |-> names, ends |-> ends]
                ELSE ReadNames(e.p, n - 1, Append(names, e.name), Append(ends, e.p.rindex)) :
                e \in {dns_packet_read_name(p, TRUE)} })

\* The names appended to the packet, the cursor left at the first, and as
\* many names read back
RoundTrip ==
    \E names \in NameSeqs :
        Finish("round_trip",
               Only({ [names |-> names, appended |-> a.r, starts |-> a.starts,
                       read |-> d.names, ends |-> d.ends] @@ d :
                      a \in {AppendNames(pkt, names, <<>>)},
                      d \in {ReadNames(AppendNames(pkt, names, <<>>).p, Len(names),
                                       <<>>, <<>>)} }))

NextRoundTrip == op = "new" /\ Parsing(RoundTrip)

SpecRoundTrip == InitNames /\ [][NextRoundTrip]_vars

(***************************************************************************)
(* Sets of types written to a fresh packet as a type bitmap and read back. *)
(***************************************************************************)
\* Types that are no pseudo-types, in the windows 0, 1 and 255, in the first
\* and in later bytes of the bitmap, the last bit of a window among them
TypePool == {1, 2, 7, 8, 46, 256, 263, 65535}

\* dns_packet_append_types of a set, then dns_packet_read_type_windows over
\* the bytes that it appended
TypesRoundTrip ==
    \E T \in SUBSET TypePool :
        Finish("types_round_trip",
               Only({ [set |-> T, appended |-> a.r, start |-> a.start] @@ d :
                      a \in {dns_packet_append_types(pkt, T)},
                      d \in {Only({ dns_packet_read_type_windows(
                                        dns_packet_rewind(e.p, e.start),
                                        e.p.size - e.start) :
                                    e \in {dns_packet_append_types(pkt, T)} })} }))

NextTypes == op = "new" /\ Parsing(TypesRoundTrip)

SpecTypes == InitNames /\ [][NextTypes]_vars

(***************************************************************************)
(* LOC records, received, decoded and encoded again.                       *)
(***************************************************************************)
\* Bytes of size, horiz_pre and vert_pre: 0, 1e2, 9e9, and with a mantissa
\* of 0 and an exponent above 0, an exponent of 10, a mantissa of 10
Precisions == {0, 18, 153, 1, 10, 160}

\* The rdata of LOC records: of version 0 with every choice of the three
\* precision bytes, of version 0 and cut short, of other versions, and none
LocRdata ==
    {<<0, s, h, v, 0, 0, 0, 1, 0, 0, 0, 2, 0, 0, 0, 3>> :
        s \in Precisions, h \in Precisions, v \in Precisions}
    \cup {<<0>>, <<0, 10>>, <<0, 18>>, <<0, 18, 10>>, <<0, 18, 18, 160>>, <<>>}
    \cup {<<1>>, <<1, 2, 3>>, <<255, 0>>, <<2, 18, 18, 18, 0, 0, 0, 1, 0, 0, 0, 2, 0, 0, 0, 3>>}

LocMessages == {Header(0, 1, 0, 0) \o Rr(<<0>>, DNS_TYPE_LOC, 1, rdata) : rdata \in LocRdata}

InitLoc ==
    /\ \E bytes \in LocMessages : pkt = Received("dns", bytes)
    /\ heap = NoChain
    /\ Idle

\* The record rr read from p, as the caller holds it: generic.data is the
\* copy dns_packet_read_memdup made of the bytes of p
Held(p, rr) ==
    IF rr.unparseable \/ rr.key.type # DNS_TYPE_LOC
    THEN [key |-> rr.key, ttl |-> rr.ttl, unparseable |-> rr.unparseable,
          generic |-> [bytes |-> BytesAt(p, rr.rdata.off, rr.rdata.size),
                       size |-> rr.rdata.size]]
    ELSE [key |-> rr.key, ttl |-> rr.ttl, unparseable |-> FALSE,
          loc |-> [version |-> rr.rdata[1], size |-> rr.rdata[2],
                   horiz_pre |-> rr.rdata[3], vert_pre |-> rr.rdata[4],
                   latitude |-> rr.rdata[5], longitude |-> rr.rdata[6],
                   altitude |-> rr.rdata[7]]]

\* dns_packet_read_rr and, when it gave a record, dns_packet_append_rr of
\* that record to a packet of dns_packet_new; wire: the bytes appended
ReencodeRr ==
    \E o \in OomPoints :
        Finish("reencode_rr",
               Only({ IF e.hang \/ e.r < 0
                      THEN [oom |-> o, appended |-> 0, wire |-> <<>>] @@ e
                      ELSE Only({ [oom |-> o, appended |-> a.r,
                                   wire |-> BytesAt(a.p, DNS_PACKET_HEADER_SIZE,
                                                    a.p.size - DNS_PACKET_HEADER_SIZE)] @@ e :
                                  a \in {dns_packet_append_rr(dns_packet_new("dns", 0),
                                                              Held(e.p, e.rr))} }) :
                      e \in {dns_packet_read_rr(With(o))} }))

NextLoc == \/ Parsing(ReencodeRr) \/ Parsing(Rewind)

SpecLoc == InitLoc /\ [][NextLoc]_vars

(***************************************************************************)
\* Bytes of a bitmap: no bit, the first bit, the second bit, the last bit
WindowAlphabet == {0, 128, 64, 1}

\* Messages that hold one window after the header: the window number, the
\* length, the bitmap; and a window in which the bit of type 41 (OPT) is set
WindowMessages ==
    {Header(0, 0, 0, 0) \o <<w, Len(b)>> \o b :
        w \in {0, 1}, b \in UNION {[1..n -> WindowAlphabet] : n \in 1..MaxWindowLen}}
    \cup {Header(0, 0, 0, 0) \o <<0, 6, 64, 0, 0, 0, 0, 64>>,
          Header(0, 0, 0, 0) \o <<0, 0>>,
          Header(0, 0, 0, 0) \o <<0, 33>> \o Fill(33, 64)}

InitWindow ==
    /\ \E bytes \in WindowMessages : pkt = Received("dns", bytes)
    /\ heap = NoChain
    /\ Idle

ReadTypeWindow ==
    \E o \in OomPoints :
        Finish("read_type_window", dns_packet_read_type_window(With(o), {}))

ReadTypeWindows ==
    \E o \in OomPoints :
        Finish("read_type_windows",
               dns_packet_read_type_windows(With(o), pkt.size - pkt.rindex))

NextWindow ==
    \/ Parsing(ReadTypeWindow)
    \/ Parsing(ReadTypeWindows)
    \/ Parsing(Rewind)

SpecWindow == InitWindow /\ [][NextWindow]_vars

(***************************************************************************)
(* References: the packet P, its continuation M and their users.           *)
(***************************************************************************)
Packets == {"P", "M"}

InitRef ==
    /\ pkt = dns_packet_new("dns", 0)
    /\ \/ heap = NoChain
       \/ \E k \in 0..1 :
              heap = [n_ref |-> [P |-> 1, M |-> 1 + k], held |-> [P |-> 1, M |-> k],
                      more |-> "M", unrefs |-> 0, uaf |-> FALSE]
    /\ Idle

\* What a call on the reference counts leaves
Counting(name, x, h) ==
    /\ heap' = h
    /\ op' = name
    /\ ret' = 0
    /\ out' = <<x>>
    /\ UNCHANGED <<pkt, pre_size, pre_rindex, hung, nops>>

\* A user that holds a reference takes another one
Ref ==
    \E x \in Packets :
        /\ ~heap.uaf
        /\ heap.held[x] > 0
        /\ heap.n_ref[x] < MaxRefs
        /\ Counting("ref", x, [dns_packet_ref(heap, x) EXCEPT !.held[x] = @ + 1])

\* A user releases a reference it holds
Unref ==
    \E x \in Packets :
        /\ ~heap.uaf
        /\ heap.held[x] > 0
        /\ heap.unrefs < MaxRefs
        /\ Counting("unref", x, [dns_packet_unref(heap, x) EXCEPT !.held[x] = @ - 1])

NextRef == Ref \/ Unref

SpecRef == InitRef /\ [][NextRef]_vars

(***************************************************************************)
(* Properties of the send path (Spec).                                     *)
(***************************************************************************)
\* The append operations that the atomicity contract names
PublicAppends == Appends \ {"append_string"}

\* C1: when an append operation returns an error, size equals its value
\* before the call and every offset in the compression map is below size.
C1_AppendAtomic ==
    op \in PublicAppends /\ ret < 0 =>
        /\ pkt.size = pre_size
        /\ \A k \in DOMAIN pkt.names : pkt.names[k] < pkt.size

\* C7: DNS_PACKET_HEADER_SIZE <= size <= allocated <= DNS_PACKET_SIZE_MAX in
\* every state reached from dns_packet_new, for every protocol and mtu.
C7_SizeInvariant ==
    /\ DNS_PACKET_HEADER_SIZE <= pkt.size
    /\ pkt.size <= pkt.allocated
    /\ pkt.allocated <= DNS_PACKET_SIZE_MAX

\* An append found the buffer at DNS_PACKET_SIZE_MAX and was refused
C7_Witness ==
    /\ op \in Appends
    /\ ret = -EMSGSIZE
    /\ pkt.allocated = DNS_PACKET_SIZE_MAX
    /\ pkt.size > DNS_PACKET_SIZE_MAX - 4

\* C8: DNS_PACKET_HEADER_SIZE <= rindex <= size after any sequence of
\* appends, truncations, reads, rewinds and extractions.
C8_ReadCursor ==
    /\ DNS_PACKET_HEADER_SIZE <= pkt.rindex
    /\ pkt.rindex <= pkt.size

\* C9: every offset o in the compression map satisfies
\* DNS_PACKET_HEADER_SIZE <= o < size and o < 0x4000.
C9_MapOffsets ==
    \A k \in DOMAIN pkt.names :
        /\ DNS_PACKET_HEADER_SIZE <= pkt.names[k]
        /\ pkt.names[k] < pkt.size
        /\ pkt.names[k] < 16384

\* C10: a status >= 0 means success: an append operation that left the
\* packet at its size before the call (nothing was added, or what was added
\* was truncated away) returned a negative value.
C10_SignConvention ==
    op \in Appends /\ pkt.size = pre_size => ret < 0

(***************************************************************************)
(* Properties of the receive path (SpecRx, SpecName).                      *)
(***************************************************************************)
\* The read operations that the atomicity contract names
PublicReads == Reads

\* C2: when a read operation returns an error, rindex equals its value
\* before the call; also for dns_packet_read_rr on a TXT or SPF record whose
\* first string was read and whose later string fails.
C2_ReadAtomic ==
    op \in PublicReads /\ ret < 0 => pkt.rindex = pre_rindex

\* C4: dns_packet_read_name returns for every content and start position;
\* each pointer it follows goes to an offset that is at least
\* DNS_PACKET_HEADER_SIZE and below the barrier, which is the start of the
\* name at first and the target of the jump before afterwards, so the targets
\* decrease strictly and there are no more of them than offsets below the start.
C4_ReadNameTerminates ==
    op = "read_name" =>
        /\ ~hung
        /\ \A i \in DOMAIN out.jumps :
               /\ DNS_PACKET_HEADER_SIZE <= out.jumps[i]
               /\ out.jumps[i] < (IF i = 1 THEN pre_rindex ELSE out.jumps[i - 1])
        /\ Len(out.jumps) <= pre_rindex - DNS_PACKET_HEADER_SIZE

\* A name was read through two pointers
C4_Witness ==
    /\ op = "read_name"
    /\ ret = 0
    /\ Len(out.jumps) = 2

RECURSIVE LabelsEnd(_, _)
\* The offset of the first byte, from off on, that is not the length of a
\* literal label lying in the packet
LabelsEnd(off, fuel) ==
    IF fuel = 0 \/ off >= pkt.size THEN off
    ELSE IF ByteAt(pkt, off) \in 1..63 /\ off + 1 + ByteAt(pkt, off) <= pkt.size
    THEN LabelsEnd(off + 1 + ByteAt(pkt, off), fuel - 1)
    ELSE off

\* Where the literal labels at the start of the name that was read end, the
\* byte there, and the pointer it makes with the byte after it
FirstSpecial == LabelsEnd(pre_rindex, MaxIter)

FirstByte == ByteAt(pkt, FirstSpecial)

FirstPointer == (FirstByte - 192) * 256 + ByteAt(pkt, FirstSpecial + 1)

\* Compression was allowed in the call of dns_packet_read_name
AllowedCompression == out.allow_compression /\ ~pkt.refuse_compression

\* C6: dns_packet_read_name returns -EBADMSG and leaves rindex alone when
\* the first pointer of the name goes to the start of the name or beyond, or
\* into the header, when the name has a length byte in 64..191, and when it
\* has a pointer while compression is not allowed (no allocation failing
\* before that byte is reached).
C6_BadPointer ==
    /\ op = "read_name"
    /\ out.oom = 0 \/ FirstSpecial = pre_rindex
    /\ \/ FirstSpecial + 1 <= pkt.size /\ FirstByte \in 64..191
       \/ FirstSpecial + 1 <= pkt.size /\ FirstByte >= 192 /\ ~AllowedCompression
       \/ FirstSpecial + 2 <= pkt.size /\ FirstByte >= 192 /\ FirstPointer >= pre_rindex
       \/ FirstSpecial + 2 <= pkt.size /\ FirstByte >= 192
          /\ FirstPointer < DNS_PACKET_HEADER_SIZE
    => ret = -EBADMSG /\ pkt.rindex = pre_rindex

\* A name of one label and a pointer to its own start was refused
C6_Witness ==
    /\ op = "read_name"
    /\ AllowedCompression
    /\ FirstSpecial > pre_rindex
    /\ FirstByte = 192
    /\ FirstPointer = pre_rindex
    /\ ret = -EBADMSG
    /\ pkt.rindex = pre_rindex

(***************************************************************************)
(* Properties of the type bitmap decoder (SpecWindow).                     *)
(***************************************************************************)
\* The types whose bits are set in the window at the start of the read,
\* pseudo-types left out: bit j (0 the most significant) of byte i stands for
\* the type window << 8 | 8 * i + j
WindowTypes ==
    {ByteAt(pkt, pre_rindex) * 256 + 8 * i + j :
        <<i, j>> \in {x \in (0..31) \X (0..7) :
            /\ x[1] < ByteAt(pkt, pre_rindex + 1)
            /\ Bit(ByteAt(pkt, pre_rindex + 2 + x[1]), 7 - x[2]) = 1
            /\ ~dns_type_is_pseudo(ByteAt(pkt, pre_rindex) * 256 + 8 * x[1] + x[2])}}

\* C5: decoding a window of a type bitmap returns for every content of the
\* window; a set bit of a pseudo-type is skipped and the bits after it are
\* decoded, and every other set bit adds its type to the set.
C5_WindowTerminates ==
    op = "read_type_window" =>
        /\ ~hung
        /\ ret = 0 => out.types = WindowTypes

(***************************************************************************)
(* Properties of the reference counts (SpecRef).                           *)
(***************************************************************************)
\* C3: the continuation M of the packet P is unreferenced once, when the
\* last reference of P is dropped; while P is referenced M is alive and its
\* count was not decremented for P.
C3_ChainLifetime ==
    heap.more = "M" =>
        /\ heap.n_ref["P"] > 0 => heap.unrefs = 0 /\ heap.n_ref["M"] > 0
        /\ heap.n_ref["P"] = 0 => heap.unrefs = 1
        /\ ~heap.uaf


(***************************************************************************)
(* C11 (disproved by the code: rindex + sz wraps around).                  *)
(* dns_packet_read(p, sz) fails and leaves rindex where it was whenever sz *)
(* is larger than size - rindex, for every size_t sz; when it succeeds,    *)
(* rindex has grown by exactly sz.                                         *)
(***************************************************************************)
C11_ReadBounds ==
    op = "read" /\ "sz" \in DOMAIN out =>
        /\ out.sz > pre_size - pre_rindex => ret < 0 /\ pkt.rindex = pre_rindex
        /\ ret = 0 => pkt.rindex = pre_rindex + out.sz

(***************************************************************************)
(* C12.  dns_packet_extract is idempotent: a call that succeeds leaves     *)
(* rindex at its pre-call value and the packet extracted; on an extracted  *)
(* packet every later call returns success and leaves rindex, question,    *)
(* answer and opt (the whole packet) as they were; no call takes the mark  *)
(* away.                                                                   *)
(***************************************************************************)
C12_ExtractIdempotent ==
    [][/\ op' = "extract" /\ ret' = 0 => pkt'.rindex = pkt.rindex /\ pkt'.extracted
       /\ op' = "extract" /\ pkt.extracted => ret' = 0 /\ pkt' = pkt
       /\ pkt.extracted => pkt'.extracted]_vars

\* A second dns_packet_extract after one that delivered a question, an
\* answer and an OPT record, called with rindex moved off the header
C12_Witness ==
    /\ op = "extract" /\ out.again /\ ret = 0 /\ pkt.extracted
    /\ pre_rindex > DNS_PACKET_HEADER_SIZE
    /\ pkt.question # <<>> /\ pkt.answer # <<>> /\ pkt.opt # <<>>

(***************************************************************************)
(* C13 (disproved by the code: p->opt is set inside the loop).             *)
(* A dns_packet_extract that fails installs nothing: rindex is at its      *)
(* pre-call value, extracted stays false, and question, answer and opt are *)
(* as they were before the call, also when a valid OPT record was read     *)
(* before the failure.                                                     *)
(***************************************************************************)
C13_ExtractFailsClean ==
    [][op' = "extract" /\ ret' < 0 =>
          /\ pkt'.rindex = pkt.rindex
          /\ ~pkt'.extracted
          /\ pkt'.question = pkt.question
          /\ pkt'.answer = pkt.answer
          /\ pkt'.opt = pkt.opt]_vars

(***************************************************************************)
(* C14.  Exact consumption: dns_packet_read_rr succeeds only if the        *)
(* decoder of the rdata left rindex at offset + RDLENGTH, offset being the *)
(* start of the rdata.  When no allocation fails, a record whose RDLENGTH  *)
(* runs past size, and a record whose decoder returned having consumed     *)
(* fewer or more bytes than RDLENGTH, give -EBADMSG with rindex restored,  *)
(* whatever the type.                                                      *)
(***************************************************************************)
\* The key of the record the call was about
RrKey == dns_packet_read_key([pkt EXCEPT !.rindex = pre_rindex])

\* The key, the TTL and RDLENGTH are there and the key is one of a record
RrHeadRead ==
    /\ ~RrKey.hang /\ RrKey.r = 0
    /\ dns_class_is_valid_rr(RrKey.key.class) /\ dns_type_is_valid_rr(RrKey.key.type)
    /\ RrKey.p.rindex + 6 <= pkt.size

RrRdlength == BeAt(pkt, RrKey.p.rindex + 4, 2)

RrOffset == RrKey.p.rindex + 6

\* What the decoder of the type does on the rdata
RrDecoded ==
    ReadRdata([pkt EXCEPT !.rindex = RrOffset], RrKey.key.type, RrRdlength, RrOffset)

\* The decoder returned to the test after the switch with r >= 0
RrDecoderReturned == ~RrDecoded.hang /\ ~RrDecoded.returned /\ RrDecoded.r >= 0

C14_ExactConsumption ==
    op = "read_rr" /\ ~hung =>
        /\ ret = 0 => RrHeadRead /\ pkt.rindex = RrOffset + RrRdlength
        /\ out.oom = 0 /\ RrHeadRead /\ RrOffset + RrRdlength > pkt.size
               => ret = -EBADMSG /\ pkt.rindex = pre_rindex
        /\ out.oom = 0 /\ RrHeadRead /\ RrOffset + RrRdlength <= pkt.size
               /\ RrDecoderReturned /\ RrDecoded.p.rindex # RrOffset + RrRdlength
               => ret = -EBADMSG /\ pkt.rindex = pre_rindex

\* An address record with an RDLENGTH of 5: the decoder consumed 4 bytes
C14_Witness ==
    /\ op = "read_rr" /\ out.oom = 0 /\ RrHeadRead
    /\ RrOffset + RrRdlength <= pkt.size /\ RrDecoderReturned
    /\ RrDecoded.p.rindex < RrOffset + RrRdlength
    /\ ret = -EBADMSG

(***************************************************************************)
(* C15 (disproved by the code: the decoders read past RDLENGTH).           *)
(* dns_packet_read_rr of a record whose RDLENGTH is below the fixed part   *)
(* of its type (A 4, AAAA 16, DS and DNSKEY 4, SSHFP 2, and the fixed      *)
(* fields of SOA, MX, SRV, RRSIG, NSEC3) returns -EBADMSG and no other     *)
(* error, whether or not bytes follow the rdata in the buffer (stated for  *)
(* calls in which no allocation fails).                                    *)
(***************************************************************************)
\* The bytes of the fields of fixed size of a type
FixedPrefix(type) ==
    CASE type = DNS_TYPE_A -> 4
      [] type = DNS_TYPE_AAAA -> 16
      [] type \in {DNS_TYPE_DS, DNS_TYPE_DNSKEY} -> 4
      [] type = DNS_TYPE_SSHFP -> 2
      [] type = DNS_TYPE_SOA -> 20
      [] type = DNS_TYPE_MX -> 2
      [] type = DNS_TYPE_SRV -> 6
      [] type = DNS_TYPE_RRSIG -> 18
      [] type = DNS_TYPE_NSEC3 -> 5
      [] OTHER -> 0

C15_ShortRdlength ==
    op = "read_rr" /\ ~hung /\ out.oom = 0 /\ RrHeadRead
    /\ RrRdlength < FixedPrefix(RrKey.key.type)
        => ret = -EBADMSG

(***************************************************************************)
(* C16.  OPT placement in dns_packet_extract: when no allocation fails, an *)
(* OPT record whose owner is not the root, or whose index among the        *)
(* records is below ANCOUNT + NSCOUNT, or that follows an earlier OPT      *)
(* record, makes the call return -EBADMSG; after a call that succeeds no   *)
(* entry of the answer is an OPT record and an OPT record of the message   *)
(* is the one in opt.                                                      *)
(***************************************************************************)
\* The question section as dns_packet_extract reads it
WireQuestion ==
    ExtractQuestion(dns_packet_rewind(pkt, DNS_PACKET_HEADER_SIZE),
                    DNS_PACKET_QDCOUNT(pkt), 0, <<>>)

RECURSIVE WireRecords(_, _, _)
\* The records dns_packet_read_rr reads one after the other from p on, up
\* to n of them or to the first that does not parse
WireRecords(p, n, recs) ==
    IF Len(recs) >= n THEN recs
    ELSE Only({ IF e.hang \/ e.r < 0 THEN recs
                ELSE WireRecords(e.p, n, Append(recs, e)) :
                e \in {dns_packet_read_rr(p)} })

\* The records of the three sections that follow a question that parses
WireRrs ==
    IF WireQuestion.hang \/ WireQuestion.r < 0 THEN <<>>
    ELSE WireRecords(WireQuestion.p, DNS_PACKET_RRCOUNT(pkt), <<>>)

IsOpt(k) == WireRrs[k].rr.key.type = DNS_TYPE_OPT

\* The k-th record is an OPT record that breaks one of the rules
OptBadAt(k) ==
    /\ IsOpt(k)
    /\ \/ WireRrs[k].rr.key.name # <<>>
       \/ k - 1 < DNS_PACKET_ANCOUNT(pkt) + DNS_PACKET_NSCOUNT(pkt)
       \/ \E j \in 1..(k - 1) : IsOpt(j)

C16_OptPlacement ==
    op = "extract" /\ ~hung /\ ~out.again =>
        /\ out.oom = 0 /\ (\E k \in DOMAIN WireRrs : OptBadAt(k)) => ret = -EBADMSG
        /\ ret = 0 =>
              /\ \A k \in DOMAIN pkt.answer : pkt.answer[k].rr.key.type # DNS_TYPE_OPT
              /\ \A k \in DOMAIN WireRrs : IsOpt(k) => pkt.opt = <<WireRrs[k].rr>>

\* An OPT record in the additional section, accepted beside an answer
C16_Witness ==
    /\ op = "extract" /\ ~out.again /\ ret = 0
    /\ \E k \in DOMAIN WireRrs : IsOpt(k)
    /\ pkt.opt # <<>> /\ pkt.answer # <<>>

(***************************************************************************)
(* C17.  Section flags in dns_packet_extract: a call that succeeds has     *)
(* read exactly ANCOUNT + NSCOUNT + ARCOUNT records, and the answer is     *)
(* what adding every record that is not OPT, in order, gives, the i-th     *)
(* record (from 0, OPT records counted) added with CACHEABLE iff           *)
(* i < ANCOUNT and with SHARED_OWNER iff the protocol is mDNS and the      *)
(* record's cache-flush bit was clear.                                     *)
(***************************************************************************)
\* The flags of the k-th record (from 1)
SectionFlags(k) ==
    {f \in {"DNS_ANSWER_CACHEABLE"} : k - 1 < DNS_PACKET_ANCOUNT(pkt)}
    \cup {f \in {"DNS_ANSWER_SHARED_OWNER"} :
             pkt.protocol = "mdns" /\ ~WireRrs[k].cache_flush}

RECURSIVE AddedUpTo(_)
\* The answer after the first k records
AddedUpTo(k) ==
    IF k = 0 THEN <<>>
    ELSE IF IsOpt(k) THEN AddedUpTo(k - 1)
    ELSE dns_answer_add(AddedUpTo(k - 1), WireRrs[k].rr, SectionFlags(k))

C17_SectionFlags ==
    op = "extract" /\ ~hung /\ ~out.again /\ ret = 0 =>
        /\ Len(WireRrs) = DNS_PACKET_RRCOUNT(pkt)
        /\ pkt.answer = AddedUpTo(DNS_PACKET_RRCOUNT(pkt))

\* An mDNS message with a record in each section, the last with the
\* cache-flush bit: three entries with three different sets of flags
C17_Witness ==
    /\ op = "extract" /\ ~out.again /\ ret = 0
    /\ pkt.protocol = "mdns" /\ Len(pkt.answer) = 3
    /\ pkt.answer[1].flags = {"DNS_ANSWER_CACHEABLE", "DNS_ANSWER_SHARED_OWNER"}
    /\ pkt.answer[2].flags = {"DNS_ANSWER_SHARED_OWNER"}
    /\ pkt.answer[3].flags = {}

(***************************************************************************)
(* C18.  The cache-flush bit in dns_packet_read_key: in an mDNS packet a   *)
(* key whose type is not OPT and whose class on the wire has the bit       *)
(* 0x8000 is decoded with the bit cleared and cache_flush true; in every   *)
(* other case the class is the one on the wire and cache_flush is false.   *)
(* A question key with cache_flush true makes dns_packet_extract return    *)
(* -EBADMSG (when no allocation fails).                                    *)
(***************************************************************************)
\* The type and class fields that end at the read cursor
WireType == BeAt(pkt, pkt.rindex - 4, 2)

WireClass == BeAt(pkt, pkt.rindex - 2, 2)

FlushBit == (WireClass \div MDNS_RR_CACHE_FLUSH) % 2 = 1

RECURSIVE WireKeys(_, _, _)
\* The keys dns_packet_read_key reads one after the other from p on, up to
\* n of them or to the first that does not parse
WireKeys(p, n, keys) ==
    IF Len(keys) >= n THEN keys
    ELSE Only({ IF e.hang \/ e.r < 0 THEN keys
                ELSE WireKeys(e.p, n, Append(keys, e)) :
                e \in {dns_packet_read_key(p)} })

\* The keys of the question section
QuestionKeys ==
    WireKeys(dns_packet_rewind(pkt, DNS_PACKET_HEADER_SIZE), DNS_PACKET_QDCOUNT(pkt), <<>>)

C18_CacheFlush ==
    /\ op = "read_key" /\ ~hung /\ ret = 0 =>
          IF pkt.protocol = "mdns" /\ WireType # DNS_TYPE_OPT /\ FlushBit
          THEN out.key.class = WireClass - MDNS_RR_CACHE_FLUSH /\ out.cache_flush
          ELSE out.key.class = WireClass /\ ~out.cache_flush
    /\ op = "extract" /\ ~hung /\ ~out.again /\ out.oom = 0
       /\ (\E k \in DOMAIN QuestionKeys : QuestionKeys[k].cache_flush)
          => ret = -EBADMSG

\* An mDNS key of class 0x8001 decoded as class 1 with cache_flush
C18_Witness ==
    /\ op = "read_key" /\ ret = 0 /\ pkt.protocol = "mdns"
    /\ WireClass = MDNS_RR_CACHE_FLUSH + 1
    /\ out.key.class = 1 /\ out.cache_flush

(***************************************************************************)
(* C19.  dns_packet_validate_reply has three kinds of result: negative if  *)
(* size is outside [DNS_PACKET_HEADER_SIZE, DNS_PACKET_SIZE_MAX]; else 0   *)
(* if QR is not 1, whatever the other fields are; else -EBADMSG if OPCODE  *)
(* is not 0, or the protocol is LLMNR and QDCOUNT is not 1, or the         *)
(* protocol is mDNS and RCODE is not 0; else positive.                     *)
(***************************************************************************)
ValidSize == DNS_PACKET_HEADER_SIZE <= pkt.size /\ pkt.size <= DNS_PACKET_SIZE_MAX

ReplyRefused ==
    \/ DNS_PACKET_OPCODE(pkt) # 0
    \/ pkt.protocol = "llmnr" /\ DNS_PACKET_QDCOUNT(pkt) # 1
    \/ pkt.protocol = "mdns" /\ DNS_PACKET_RCODE(pkt) # 0

C19_ValidateReply ==
    op = "validate_reply" =>
        CASE ~ValidSize -> ret < 0
          [] ValidSize /\ DNS_PACKET_QR(pkt) # 1 -> ret = 0
          [] ValidSize /\ DNS_PACKET_QR(pkt) = 1 /\ ReplyRefused -> ret = -EBADMSG
          [] OTHER -> ret > 0

\* An LLMNR reply without a question is refused
C19_Witness ==
    /\ op = "validate_reply" /\ ValidSize /\ pkt.protocol = "llmnr"
    /\ DNS_PACKET_QR(pkt) = 1 /\ DNS_PACKET_OPCODE(pkt) = 0
    /\ DNS_PACKET_QDCOUNT(pkt) = 0
    /\ ret = -EBADMSG

(***************************************************************************)
(* C20.  dns_packet_validate_query has three kinds of result: negative if  *)
(* size is out of bounds; else 0 if QR is not 0; else -EBADMSG if OPCODE   *)
(* or TC is not 0, or the protocol is LLMNR and QDCOUNT is not 1 or        *)
(* ANCOUNT or NSCOUNT is not 0, or the protocol is mDNS and one of AA, RD, *)
(* RA, AD, CD, RCODE is not 0; else positive.  For a packet of valid size  *)
(* exactly one of dns_packet_validate_query and dns_packet_validate_reply  *)
(* returns 0 and they are never both positive.                             *)
(***************************************************************************)
QueryRefused ==
    \/ DNS_PACKET_OPCODE(pkt) # 0
    \/ DNS_PACKET_TC(pkt) # 0
    \/ /\ pkt.protocol = "llmnr"
       /\ \/ DNS_PACKET_QDCOUNT(pkt) # 1
          \/ DNS_PACKET_ANCOUNT(pkt) # 0
          \/ DNS_PACKET_NSCOUNT(pkt) # 0
    \/ /\ pkt.protocol = "mdns"
       /\ \E f \in {DNS_PACKET_AA(pkt), DNS_PACKET_RD(pkt), DNS_PACKET_RA(pkt),
                     DNS_PACKET_AD(pkt), DNS_PACKET_CD(pkt), DNS_PACKET_RCODE(pkt)} : f # 0

C20_ValidateQuery ==
    op = "validate_query" =>
        /\ CASE ~ValidSize -> ret < 0
             [] ValidSize /\ DNS_PACKET_QR(pkt) # 0 -> ret = 0
             [] ValidSize /\ DNS_PACKET_QR(pkt) = 0 /\ QueryRefused -> ret = -EBADMSG
             [] OTHER -> ret > 0
        /\ ValidSize =>
              /\ (ret = 0) # (dns_packet_validate_reply(pkt) = 0)
              /\ ~(ret > 0 /\ dns_packet_validate_reply(pkt) > 0)

\* An mDNS query with RD set is refused, and is no reply
C20_Witness ==
    /\ op = "validate_query" /\ ValidSize /\ pkt.protocol = "mdns"
    /\ DNS_PACKET_QR(pkt) = 0 /\ DNS_PACKET_OPCODE(pkt) = 0 /\ DNS_PACKET_TC(pkt) = 0
    /\ DNS_PACKET_RD(pkt) = 1
    /\ ret = -EBADMSG /\ dns_packet_validate_reply(pkt) = 0

(***************************************************************************)
(* C21 (disproved by the code: a suffix known at an offset >= 0x4000 is    *)
(* put in the map a second time, which fails).                             *)
(* dns_packet_append_name ends the name with the pointer 0xC000 | n        *)
(* exactly when compression is allowed for the call, the packet does not   *)
(* refuse it and the longest suffix not yet emitted is in the map at an    *)
(* offset n < 0x4000; otherwise it emits the next label as it is and, when *)
(* compression is allowed, records the suffix at the offset of the label.  *)
(* Stated for calls in which no allocation fails: the call succeeds, the   *)
(* bytes it appended are those of this rule, and so are the entries of the *)
(* map.                                                                    *)
(***************************************************************************)
\* The suffix name is in the map m at an offset a pointer can hold
Compressible(m, name) == NameKey(name) \in DOMAIN m /\ m[NameKey(name)] < 16384

\* The octets of a label as the packet p emits them
LabelBytes(p, d, canonical) ==
    IF p.canonical_form /\ canonical THEN [i \in 1..Len(d) |-> ToLower(d[i])] ELSE d

RECURSIVE NameWire(_, _, _, _)
\* The encoding of name in the packet p, comp: compression is in force
NameWire(p, name, comp, canonical) ==
    IF name = <<>> THEN <<0>>
    ELSE IF comp /\ Compressible(p.names, name)
    THEN Be16(49152 + p.names[NameKey(name)])
    ELSE <<Len(Head(name))>> \o LabelBytes(p, Head(name), canonical)
         \o NameWire(p, Tail(name), comp, canonical)

RECURSIVE NameEntries(_, _, _, _)
\* The suffixes of name emitted as labels from offset off on, with the
\* offsets of their labels
NameEntries(p, name, comp, off) ==
    IF name = <<>> \/ (comp /\ Compressible(p.names, name)) THEN {}
    ELSE {<<NameKey(name), off>>}
         \cup NameEntries(p, Tail(name), comp, off + 1 + Len(Head(name)))

\* Compression is in force for the call recorded in o on the packet p
InForce(p, o) == o.allow_compression /\ ~p.refuse_compression

C21_PointerRule ==
    [][op' = "append_name" /\ out'.oom = 0 =>
          /\ ret' = 0
          /\ pkt'.size = pkt.size + Len(NameWire(pkt, out'.name, InForce(pkt, out'),
                                                  out'.canonical_candidate))
          /\ BytesAt(pkt', pkt.size, pkt'.size - pkt.size)
                = NameWire(pkt, out'.name, InForce(pkt, out'), out'.canonical_candidate)
          /\ {<<k, pkt'.names[k]>> : k \in DOMAIN pkt'.names}
                = {<<k, pkt.names[k]>> : k \in DOMAIN pkt.names}
                  \cup (IF InForce(pkt, out')
                        THEN NameEntries(pkt, out'.name, TRUE, pkt.size) ELSE {})]_vars

(***************************************************************************)
(* C30 (disproved by the code: hashmap_put of a key the map holds with     *)
(* another offset fails).                                                  *)
(* When dns_packet_append_name runs with compression in force and reaches  *)
(* a suffix that the map holds at an offset >= 0x4000, the call (no        *)
(* allocation failing, the packet far from its largest size) succeeds, the *)
(* name is emitted label by label without a pointer for that suffix, and   *)
(* the map holds the suffix afterwards.                                    *)
(***************************************************************************)
RECURSIVE FarSuffixReached(_, _)
\* The loop over the labels of name comes to a suffix the map of p holds at
\* an offset no pointer can hold
FarSuffixReached(p, name) ==
    IF name = <<>> \/ Compressible(p.names, name) THEN FALSE
    ELSE IF NameKey(name) \in DOMAIN p.names THEN TRUE
    ELSE FarSuffixReached(p, Tail(name))

C30_BeyondPointerRange ==
    [][op' = "append_name" /\ out'.oom = 0 /\ InForce(pkt, out')
       /\ FarSuffixReached(pkt, out'.name) =>
          /\ ret' = 0
          /\ BytesAt(pkt', pkt.size, pkt'.size - pkt.size)
                = NameWire(pkt, out'.name, TRUE, out'.canonical_candidate)
          /\ NameKey(out'.name) \in DOMAIN pkt'.names]_vars

(***************************************************************************)
(* C23 (disproved by the code: a pointer may lead to labels that an        *)
(* earlier append emitted with their case kept).                           *)
(* In a packet with canonical_form set, a name appended with               *)
(* canonical_candidate true is encoded in lower case whatever the case of  *)
(* the input: its encoding, the labels reached through the pointer it ends *)
(* in included, holds no ASCII A-Z.  When canonical_form is clear or       *)
(* canonical_candidate is false the labels are emitted with their case     *)
(* unchanged.                                                              *)
(***************************************************************************)
\* The name that starts at offset off of the packet p, as the decoder reads it
NameAt(p, off) == dns_packet_read_name(dns_packet_rewind(p, off), TRUE)

\* No octet of the labels of name is an upper-case letter
LowerCase(name) ==
    \A i \in 1..Len(name) : \A j \in 1..Len(name[i]) : name[i][j] \notin 65..90

C23_CanonicalForm ==
    [][op' = "append_name" /\ ret' = 0 =>
          IF pkt.canonical_form /\ out'.canonical_candidate
          THEN NameAt(pkt', pkt.size).r = 0 /\ LowerCase(NameAt(pkt', pkt.size).name)
          ELSE BytesAt(pkt', pkt.size, pkt'.size - pkt.size)
                 = NameWire(pkt, out'.name, InForce(pkt, out'), FALSE)]_vars

(***************************************************************************)
(* C22.  Name round trip: names appended one after the other to a fresh    *)
(* packet with compression allowed are all accepted; as many names read    *)
(* back from the first one's offset with compression allowed are all       *)
(* read, are the names appended up to the case of letters, each read       *)
(* leaves rindex at the start of the next appended name (the last at       *)
(* size), and the bytes appended are no more than the names take without   *)
(* compression.                                                            *)
(***************************************************************************)
\* The bytes a name takes when every label is emitted
Uncompressed(name) == NameWire(pkt, name, FALSE, FALSE)

RECURSIVE TotalLen(_)
TotalLen(names) ==
    IF names = <<>> THEN 0 ELSE Len(Uncompressed(Head(names))) + TotalLen(Tail(names))

RdlengthField(saved_size, rdata_start) == saved_size + rdata_start - 2

\* The record appended by the step from p to q lies behind the bytes of p,
\* with its RDLENGTH field patched
BackPatched(p, q, o) ==
    /\ o.start = p.size
    /\ RdlengthField(p.size, o.rdata_start) >= p.size + 7
    /\ RdlengthField(p.size, o.rdata_start) + 2 <= q.size
    /\ BeAt(q, RdlengthField(p.size, o.rdata_start), 2)
          = q.size - RdlengthField(p.size, o.rdata_start) - 2
    /\ \A x \in DOMAIN p.data \cup DOMAIN q.data : x < p.size => ByteAt(q, x) = ByteAt(p, x)
    /\ q.allocated >= q.size

C24_RdlengthBackPatch ==
    [][op' = "append_rr" /\ ret' = 0 => BackPatched(pkt, pkt', out')]_vars

\* A record with 4 bytes of rdata was appended behind other bytes
C24_Witness ==
    /\ op = "append_rr" /\ ret = 0 /\ pre_size > DNS_PACKET_HEADER_SIZE
    /\ out.start = pre_size
    /\ pkt.size - (pre_size + out.rdata_start) = 4
    /\ BeAt(pkt, RdlengthField(pre_size, out.rdata_start), 2) = 4

(***************************************************************************)
(* C25.  Type-window validity on decode: of the calls of                   *)
(* dns_packet_read_type_window that end without an allocation failing, on  *)
(* a window whose two leading bytes are in the packet, those with a length *)
(* byte of 0 or above 32 return -EBADMSG, and those with a length of 1..32 *)
(* and the bitmap in the packet return -EBADMSG exactly when no bitmap     *)
(* byte has a set bit; dns_packet_read_type_windows over a region of zero  *)
(* bytes returns 0.                                                        *)
(***************************************************************************)
\* The length byte of the window at off
WindowLength(p, off) == ByteAt(p, off + 1)

\* No bit is set in the bitmap of the window at off
WindowEmpty(p, off) == \A i \in 1..WindowLength(p, off) : ByteAt(p, off + 1 + i) = 0

C25_WindowValidity ==
    /\ (op = "read_type_window" /\ ~hung /\ ret # -ENOMEM /\ pre_rindex + 2 <= pkt.size) =>
          /\ WindowLength(pkt, pre_rindex) \notin 1..32 => ret = -EBADMSG
          /\ (/\ WindowLength(pkt, pre_rindex) \in 1..32
              /\ pre_rindex + 2 + WindowLength(pkt, pre_rindex) <= pkt.size) =>
                 (ret = -EBADMSG <=> WindowEmpty(pkt, pre_rindex))
    /\ (op = "read_type_windows" /\ pre_rindex = pkt.size) => ret = 0

(***************************************************************************)
(* C26.  Type-bitmap round trip: for a set T of types that are no          *)
(* pseudo-types, dns_packet_append_types succeeds and appends one window   *)
(* for each high octet that occurs in T, in increasing order of the        *)
(* windows, each as the window number, the length (the largest low octet   *)
(* of the window) / 8 + 1 and as many bytes, in which bit 7 - n mod 8 of   *)
(* byte n / 8 is set exactly for the low octets n of the members;          *)
(* dns_packet_read_type_windows over these bytes returns 0, yields T and   *)
(* leaves rindex at their end; the empty set appends nothing.              *)
(***************************************************************************)
\* The low octets of the members of T in window w
LowOctets(T, w) == {t % 256 : t \in {x \in T : x \div 256 = w}}

\* The largest member of a set of numbers
Largest(S) == CHOOSE m \in S : \A x \in S : x <= m

\* Byte i (from 0) of the bitmap that has the bits of the octets in low
BitmapByte(low, i) ==
    (IF 8 * i \in low THEN 128 ELSE 0) + (IF 8 * i + 1 \in low THEN 64 ELSE 0)
    + (IF 8 * i + 2 \in low THEN 32 ELSE 0) + (IF 8 * i + 3 \in low THEN 16 ELSE 0)
    + (IF 8 * i + 4 \in low THEN 8 ELSE 0) + (IF 8 * i + 5 \in low THEN 4 ELSE 0)
    + (IF 8 * i + 6 \in low THEN 2 ELSE 0) + (IF 8 * i + 7 \in low THEN 1 ELSE 0)

\* The window w of T on the wire
WindowWire(T, w) ==
    <<w, Largest(LowOctets(T, w)) \div 8 + 1>>
    \o [i \in 1..(Largest(LowOctets(T, w)) \div 8 + 1) |-> BitmapByte(LowOctets(T, w), i - 1)]

RECURSIVE WindowsWire(_, _)
\* The windows ws of T on the wire, in increasing order
WindowsWire(T, ws) ==
    IF ws = {} THEN <<>>
    ELSE WindowWire(T, CHOOSE w \in ws : \A x \in ws : w <= x)
         \o WindowsWire(T, ws \ {CHOOSE w \in ws : \A x \in ws : w <= x})

C26_TypesRoundTrip ==
    op = "types_round_trip" =>
        /\ out.appended = 0 /\ out.start = pre_size
        /\ BytesAt(pkt, pre_size, pkt.size - pre_size)
             = WindowsWire(out.set, {t \div 256 : t \in out.set})
        /\ out.set = {} => pkt.size = pre_size
        /\ ret = 0 /\ ~hung /\ out.types = out.set /\ pkt.rindex = pkt.size

\* A set with members in three windows, one of them of the full 32 bytes
C26_Witness ==
    /\ op = "types_round_trip" /\ out.set = {1, 46, 256, 263, 65535}
    /\ pkt.size - pre_size = 8 + 3 + 34
    /\ out.types = out.set

(***************************************************************************)
(* C27.  Lossless LOC fallback: of the calls of dns_packet_read_rr on a    *)
(* LOC record in which no allocation fails, those on a record with         *)
(* RDLENGTH >= 1 and a version byte other than 0 return 0 with unparseable *)
(* set and all RDLENGTH bytes of the rdata kept, and dns_packet_append_rr  *)
(* of the record writes the record as it was received, RDLENGTH and rdata  *)
(* included; those on a record of version 0 return -EBADMSG when the first *)
(* of size, horiz_pre and vert_pre that has a mantissa above 9, an         *)
(* exponent above 9 or a mantissa of 0 with an exponent other than 0 is in *)
(* the packet.                                                             *)
(***************************************************************************)
\* The offset of the RDLENGTH field of the record of LocMessages
LocRdlengthAt == DNS_PACKET_HEADER_SIZE + 1 + 2 + 2 + 4

\* A precision byte: the mantissa in the high four bits, the exponent in the
\* low four
PrecisionValid(b) == b \div 16 <= 9 /\ b % 16 <= 9 /\ (b \div 16 > 0 \/ b % 16 = 0)

C27_LocFallback ==
    (op = "reencode_rr" /\ pre_rindex = DNS_PACKET_HEADER_SIZE /\ out.oom = 0) =>
        /\ (BeAt(pkt, LocRdlengthAt, 2) >= 1 /\ ByteAt(pkt, LocRdlengthAt + 2) # 0) =>
              /\ ret = 0 /\ ~hung /\ out.rr.unparseable
              /\ out.rr.rdata = [off |-> LocRdlengthAt + 2, size |-> BeAt(pkt, LocRdlengthAt, 2)]
              /\ out.appended = 0
              /\ out.wire = BytesAt(pkt, DNS_PACKET_HEADER_SIZE, pkt.size - DNS_PACKET_HEADER_SIZE)
        /\ (BeAt(pkt, LocRdlengthAt, 2) >= 1 /\ ByteAt(pkt, LocRdlengthAt + 2) = 0) =>
              /\ (\E i \in 1..3 :
                     /\ LocRdlengthAt + 2 + i < pkt.size
                     /\ ~PrecisionValid(ByteAt(pkt, LocRdlengthAt + 2 + i))
                     /\ \A j \in 1..(i - 1) : PrecisionValid(ByteAt(pkt, LocRdlengthAt + 2 + j)))
                  => ret = -EBADMSG
              /\ ret = 0 => (/\ ~out.rr.unparseable
                             /\ \A i \in 1..3 : PrecisionValid(ByteAt(pkt, LocRdlengthAt + 2 + i)))

\* The record of version 1 with the rdata 01 02 03 was read and written again
C27_Witness ==
    /\ op = "reencode_rr" /\ ret = 0 /\ out.oom = 0 /\ out.rr.unparseable
    /\ BytesAt(pkt, LocRdlengthAt, 5) = <<0, 3, 1, 2, 3>>
    /\ out.wire = <<0>> \o Be16(DNS_TYPE_LOC) \o Be16(1) \o <<0, 0, 0, 60, 0, 3, 1, 2, 3>>

(***************************************************************************)
(* C28.  dns_packet_is_reply_for is total on replies: a call on a packet   *)
(* with QR = 1 whose extraction succeeds, the packets with QDCOUNT = 0     *)
(* (for which no question list is made) among them, reads no question list *)
(* that is absent and returns, with 0 when the question section is not     *)
(* made of the given key alone.                                            *)
(***************************************************************************)
\* The call found or made the packet extracted
ReplyExtracted == op = "is_reply_for" /\ DNS_PACKET_QR(pkt) = 1 /\ pkt.extracted

C28_ReplyForTotal ==
    ReplyExtracted =>
        /\ ~out.null_read /\ ~hung
        /\ (\/ DNS_PACKET_QDCOUNT(pkt) = 0
            \/ \E i \in 1..Len(pkt.question) :
                   dns_resource_key_equal(pkt.question[i], out.key) = 0) => ret = 0

(***************************************************************************)
(* C29.  The encoder's pointers satisfy the decoder's rule: whenever       *)
(* dns_packet_append_name, after any appends that succeeded or failed,     *)
(* returns 0 and the bytes it appended end in a compression pointer, the   *)
(* pointer's target is at least DNS_PACKET_HEADER_SIZE and below the       *)
(* offset at which the appended name starts, the name that starts at the   *)
(* target is read as a suffix of the appended name, and the appended name  *)
(* is read back from its start.                                            *)
(***************************************************************************)
\* The last two bytes of p as a number
LastTwo(p) == BeAt(p, p.size - 2, 2)

\* The name is the last labels of whole, whatever the case of the letters
IsSuffix(name, whole) ==
    /\ Len(name) >= 1 /\ Len(name) <= Len(whole)
    /\ NameKey(name) = NameKey(SubSeq(whole, Len(whole) - Len(name) + 1, Len(whole)))

\* The step from p to q appended name ending in a pointer that the decoder
\* follows to a suffix of name
PointerAccepted(p, q, name) ==
    /\ LastTwo(q) - 49152 >= DNS_PACKET_HEADER_SIZE
    /\ LastTwo(q) - 49152 < p.size
    /\ ~NameAt(q, LastTwo(q) - 49152).hang /\ NameAt(q, LastTwo(q) - 49152).r = 0
    /\ IsSuffix(NameAt(q, LastTwo(q) - 49152).name, name)
    /\ ~NameAt(q, p.size).hang /\ NameAt(q, p.size).r = 0
    /\ NameKey(NameAt(q, p.size).name) = NameKey(name)

C29_PointersAccepted ==
    [][(op' = "append_name" /\ ret' = 0 /\ pkt'.size >= pkt.size + 2
        /\ LastTwo(pkt') >= 49152)
       => PointerAccepted(pkt, pkt', out'.name)]_vars
====
